---- MODULE Spec2Model ----
(***************************************************************************)
(* imxrt-ccm: the ARM clock retiming of src/src/arm.rs.                    *)
(*                                                                         *)
(* Timings::target is a pure function on u32; set_frequency is a sequence  *)
(* of volatile register reads and writes interleaved with busy-waits on    *)
(* the handshake register CCM_CDHIPR and on the lock bit of                *)
(* CCM_ANALOG_PLL_ARM.                                                     *)
(*                                                                         *)
(* A u32 does not fit the model checker's integers, so a u32 is the pair  *)
(* [hi, lo] standing for hi * 10^6 + lo with 0 <= lo < 10^6.  A register   *)
(* is the set of the positions (0..31) of its bits that are 1.             *)
(***************************************************************************)
EXTENDS Integers, Sequences, FiniteSets, TLC

Min(a, b) == IF a < b THEN a ELSE b
Max(a, b) == IF a > b THEN a ELSE b

\* the one element of a singleton: Eval({e(x) : x \in {v}}) is e(v) with v
\* computed once
Eval(S) == CHOOSE x \in S : TRUE

(***************************************************************************)
(* u32 arithmetic                                                          *)
(***************************************************************************)
Mega == 1000 * 1000

U32(hi, lo) == [hi |-> hi, lo |-> lo]

\* u32::MAX = 4,294,967,295
U32Max == U32(4294, 967295)

\* 2^32 = 4,294,967,296
TwoTo32 == U32(4294, 967296)

Norm(x) == [hi |-> x.hi + (x.lo \div Mega), lo |-> x.lo % Mega]

Lt(x, y) == x.hi < y.hi \/ (x.hi = y.hi /\ x.lo < y.lo)

Le(x, y) == x = y \/ Lt(x, y)

\* x - y for y <= x
Sub(x, y) ==
    IF x.lo >= y.lo THEN [hi |-> x.hi - y.hi, lo |-> x.lo - y.lo]
    ELSE [hi |-> x.hi - y.hi - 1, lo |-> x.lo + Mega - y.lo]

\* the mathematical value x * d and x + n, not yet reduced to 32 bits
MulExact(x, d) == Norm([hi |-> x.hi * d, lo |-> x.lo * d])

AddExact(x, n) == Norm([hi |-> x.hi, lo |-> x.lo + n])

Overflows(x) == Lt(U32Max, x)

\* reduction modulo 2^32: what a wrapping u32 operation keeps
RECURSIVE Wrap(_)
Wrap(x) == IF Overflows(x) THEN Wrap(Sub(x, TwoTo32)) ELSE x

\* x / (k * 10^6), truncating
DivMega(x, k) == x.hi \div k

\* a u32 below 2^31 as an integer
ToInt(x) == x.hi * Mega + x.lo

OfInt(n) == [hi |-> n \div Mega, lo |-> n % Mega]

(***************************************************************************)
(* Timings::target (arm.rs 112-152)                                        *)
(*                                                                         *)
(* `checks` is the build's overflow-checks setting: with it an overflowing *)
(* u32 operation panics, without it the operation wraps modulo 2^32.       *)
(* Every result carries `overflow` (some u32 operation exceeded u32::MAX), *)
(* `divzero` (some divisor was 0) and `panic`.                             *)
(***************************************************************************)
\* compute_arm_hz dividing the rounded-up quotient
compute_arm_hz_ceil(div_arm, div_ahb, pll_arm_div_sel) ==
    (((pll_arm_div_sel * 12000000) + div_arm - 1) \div div_arm) \div div_ahb

compute_arm_hz(div_arm, div_ahb, pll_arm_div_sel) ==
    ((pll_arm_div_sel * 12000000) \div div_arm) \div div_ahb

\* arm_hz * div_arm * div_ahb, evaluated left to right in u32
Product(arm_hz, div_arm, div_ahb) ==
    Eval({Eval({[val |-> Wrap(second), ovf |-> Overflows(first) \/ Overflows(second)] :
                   second \in {MulExact(Wrap(first), div_ahb)}}) :
             first \in {MulExact(arm_hz, div_arm)}})

\* NextCandidate growing the bus divider before the ARM divider
NextCandidateAhbFirst(c) ==
    IF c.div_ahb < 5
    THEN [div_arm |-> c.div_arm, div_ahb |-> c.div_ahb + 1]
    ELSE IF c.div_arm < 8
    THEN [div_arm |-> c.div_arm + 1, div_ahb |-> 1]
    ELSE c

\* NextCandidate with the bus divider stopping one short of 5
NextCandidateShort(c) ==
    IF c.div_arm < 8
    THEN [div_arm |-> c.div_arm + 1, div_ahb |-> c.div_ahb]
    ELSE IF c.div_ahb < 4
    THEN [div_arm |-> 1, div_ahb |-> c.div_ahb + 1]
    ELSE c

\* one turn of the while loop's body on the candidate c: the next
\* candidate, or c itself where the loop breaks
NextCandidate(c) ==
    IF c.div_arm < 8
    THEN [div_arm |-> c.div_arm + 1, div_ahb |-> c.div_ahb]
    ELSE IF c.div_ahb < 5
    THEN [div_arm |-> 1, div_ahb |-> c.div_ahb + 1]
    ELSE c

\* the candidates in the order the loop visits them, from (1, 1) to the
\* one at which it breaks
RECURSIVE Visit(_)
Visit(seq) ==
    IF NextCandidate(seq[Len(seq)]) = seq[Len(seq)]
    THEN seq
    ELSE Visit(Append(seq, NextCandidate(seq[Len(seq)])))

Candidates == Visit(<<[div_arm |-> 1, div_ahb |-> 1]>>)

\* whether the loop is left at candidate c: an overflow panic, the loop
\* condition false, or the break
Leaves(arm_hz, c, checks) ==
    Eval({\/ p.ovf /\ checks
          \/ ~Lt(p.val, U32(648, 0))
          \/ NextCandidate(c) = c : p \in {Product(arm_hz, c.div_arm, c.div_ahb)}})

\* the while loop of Timings::target: the first candidate, in visiting
\* order, at which the loop is left; ovf tells whether a product evaluated
\* on the way exceeded u32::MAX
SearchDividers(arm_hz, checks) ==
    Eval({Eval({[div_arm |-> Candidates[last].div_arm,
                 div_ahb |-> Candidates[last].div_ahb,
                 ovf |-> \E j \in 1 .. last :
                            Product(arm_hz, Candidates[j].div_arm, Candidates[j].div_ahb).ovf] :
                   last \in {i \in exits : \A j \in exits : i <= j}}) :
             exits \in {{i \in 1 .. Len(Candidates) : Leaves(arm_hz, Candidates[i], checks)}}})

\* RoundDivSel without the half step: truncation instead of rounding
RoundDivSelTruncating(arm_hz, div_arm, div_ahb) ==
    Eval({[val |-> DivMega(p.val, 12), ovf |-> p.ovf] :
             p \in {Product(arm_hz, div_arm, div_ahb)}})

\* (arm_hz * div_arm * div_ahb + 6_000_000) / 12_000_000
RoundDivSel(arm_hz, div_arm, div_ahb) ==
    Eval({Eval({[val |-> DivMega(Wrap(sum), 12), ovf |-> p.ovf \/ Overflows(sum)] :
                   sum \in {AddExact(p.val, 6000000)}}) :
             p \in {Product(arm_hz, div_arm, div_ahb)}})

\* pll_arm_div_sel.min(108).max(54)
ClampDivSel(pll_arm_div_sel) == Max(Min(pll_arm_div_sel, 108), 54)

\* DivIpg stepping at each multiple of 150 MHz instead of just past it
DivIpgFloor(arm_hz) == Min((arm_hz \div 150000000) + 1, 4)

\* ((arm_hz + 149_999_999) / 150_000_000).min(4); arm_hz is the achieved
\* frequency, at most 108 * 12 MHz, so the sum stays below 2^31
DivIpg(arm_hz) == Min((arm_hz + 149999999) \div 150000000, 4)

NoTimings ==
    [pll_arm_div_sel |-> 0, div_arm |-> 0, div_ahb |-> 0, arm_hz |-> 0, div_ipg |-> 0]

\* Timings::target from the multiplier on, d being the dividers found
TimingsFrom(d, raw, checks) ==
    LET pll_arm_div_sel == ClampDivSel(raw.val)
        mulovf == Overflows(MulExact(U32(12, 0), pll_arm_div_sel))
        arm_hz == compute_arm_hz(d.div_arm, d.div_ahb, pll_arm_div_sel)
        addovf == Overflows(AddExact(OfInt(arm_hz), 149999999))
        overflow == d.ovf \/ raw.ovf \/ mulovf \/ addovf
    IN IF checks /\ overflow
       THEN [panic |-> TRUE, overflow |-> TRUE, divzero |-> FALSE, t |-> NoTimings]
       ELSE [panic |-> FALSE, overflow |-> overflow,
             divzero |-> (d.div_arm = 0 \/ d.div_ahb = 0),
             t |-> [pll_arm_div_sel |-> pll_arm_div_sel,
                    div_arm |-> d.div_arm,
                    div_ahb |-> d.div_ahb,
                    arm_hz |-> arm_hz,
                    div_ipg |-> DivIpg(arm_hz)]]

TimingsTarget(hz, checks) ==
    Eval({Eval({TimingsFrom(d, raw, checks) :
                   raw \in {RoundDivSel(hz, d.div_arm, d.div_ahb)}}) :
             d \in {SearchDividers(hz, checks)}})

\* Timings::ipg_hz
ipg_hz(t) == t.arm_hz \div t.div_ipg

(***************************************************************************)
(* Registers and fields (register.rs 3-42)                                 *)
(***************************************************************************)
BitPos == 0 .. 31

\* the bits of a number below 2^31
Bits(n) == {i \in 0 .. 30 : (n \div (2 ^ i)) % 2 = 1}

RECURSIVE Num(_)
Num(S) == IF S = {} THEN 0 ELSE LET i == CHOOSE j \in S : TRUE IN (2 ^ i) + Num(S \ {i})

\* u32 shifts: bits shifted past either end are lost
Shl(S, k) == {i + k : i \in S} \cap BitPos

Shr(S, k) == {i - k : i \in S} \cap BitPos

\* Field::new(offset, mask)
FieldNew(offset, mask) == [offset |-> offset, mask |-> Shl(Bits(mask), offset)]

\* Field::modify: the value stored over the register content v
FieldModify(f, v, value) == (v \ f.mask) \cup (Shl(value, f.offset) \cap f.mask)

\* Field::write_zero: the value stored
FieldWriteZero(f, value) == Shl(value, f.offset) \cap f.mask

\* Field::read
FieldRead(f, v) == Num(Shr(v \cap f.mask, f.offset))

\* u32::saturating_sub(1)
SaturatingSub1(n) == IF n = 0 THEN 0 ELSE n - 1

PERIPH_CLK2_PODF == FieldNew(27, 7)
PERIPH_CLK2_SEL == FieldNew(12, 3)
PERIPH_CLK_SEL == FieldNew(25, 1)
PRE_PERIPH_CLK_SEL == FieldNew(18, 3)
\* DIV_SEL one bit too narrow
DIV_SEL_6bit == FieldNew(0, 63)

DIV_SEL == FieldNew(0, 127)
POWERDOWN == FieldNew(12, 1)
ENABLE == FieldNew(13, 1)
LOCK == {31}
ARM_PODF == FieldNew(0, 7)
AHB_PODF == FieldNew(10, 7)
IPG_PODF == FieldNew(8, 3)

(***************************************************************************)
(* State                                                                   *)
(***************************************************************************)
VARIABLES
    mem,        \* register name -> content (CCM_CACCR, CCM_CBCDR, CCM_CBCMR,
                \* CCM_ANALOG_PLL_ARM, CCM_CDHIPR)
    pc,         \* position of the one execution context
    checks,     \* the build's overflow-checks setting
    hz,         \* argument of the call in progress (u32)
    timings,    \* outcome of Timings::target in the call in progress
    ret,        \* (ARMClock, IPGClock) of set_frequency
    query,      \* (ARMClock, IPGClock) of the last frequency()
    log,        \* register writes and completed waits of the call in progress
    op          \* the operation called, with its arguments, the memory before
                \* the call and, once it has run, its result

vars == <<mem, pc, checks, hz, timings, ret, query, log, op>>

NoOutcome == [panic |-> FALSE, overflow |-> FALSE, divzero |-> FALSE, t |-> NoTimings]

NoRet == [arm |-> 0, ipg |-> 0]

\* no peripheral clock operation
NoOp == [name |-> "none"]

Event(ev, reg, field, val) == [ev |-> ev, reg |-> reg, field |-> field, val |-> val]

(***************************************************************************)
(* Hardware                                                                *)
(*                                                                         *)
(* CCM_CDHIPR holds one busy bit per pending divider or mux handshake: a   *)
(* write to a CCM divider or mux register may raise busy bits, and the     *)
(* hardware clears them when the change has taken effect.  Bit 31 of       *)
(* CCM_ANALOG_PLL_ARM is the lock status, owned by the hardware: a         *)
(* software write stores bits 0..30 and may lose the lock; an enabled,     *)
(* powered PLL locks.                                                      *)
(***************************************************************************)
BusyPatterns == {{}, {5}, {1, 16}}

\* a volatile write of w to a CCM divider/mux register
CcmWrite(reg, w) ==
    \E busy \in BusyPatterns :
        mem' = [mem EXCEPT ![reg] = w, !["CCM_CDHIPR"] = @ \cup busy]

\* a volatile write of w to CCM_ANALOG_PLL_ARM
PllWrite(w) ==
    \E lock \in {{}, mem["CCM_ANALOG_PLL_ARM"] \cap LOCK} :
        mem' = [mem EXCEPT !["CCM_ANALOG_PLL_ARM"] = (w \ LOCK) \cup lock]

HwHandshake ==
    /\ mem["CCM_CDHIPR"] # {}
    /\ mem' = [mem EXCEPT !["CCM_CDHIPR"] = {}]
    /\ UNCHANGED <<pc, checks, hz, timings, ret, query, log, op>>

HwLock ==
    /\ ENABLE.mask \subseteq mem["CCM_ANALOG_PLL_ARM"]
    /\ POWERDOWN.mask \cap mem["CCM_ANALOG_PLL_ARM"] = {}
    /\ LOCK \cap mem["CCM_ANALOG_PLL_ARM"] = {}
    /\ mem' = [mem EXCEPT !["CCM_ANALOG_PLL_ARM"] = @ \cup LOCK]
    /\ UNCHANGED <<pc, checks, hz, timings, ret, query, log, op>>

(***************************************************************************)
(* set_frequency (arm.rs 246-253), one action per volatile access or wait  *)
(***************************************************************************)
\* Field::modify on a CCM register, as the statement at `from`
Modify(from, to, reg, name, f, n) ==
    /\ pc = from
    /\ pc' = to
    /\ CcmWrite(reg, FieldModify(f, mem[reg], Bits(n)))
    /\ log' = Append(log, Event("write", reg, name, n))
    /\ UNCHANGED <<checks, hz, timings, ret, query, op>>

\* wait_for_handshake polling only PERIPH_CLK_SEL_BUSY (bit 5)
WaitForOneBusyBit(from, to) ==
    /\ pc = from
    /\ \/ /\ 5 \in mem["CCM_CDHIPR"]
          /\ UNCHANGED vars
       \/ /\ 5 \notin mem["CCM_CDHIPR"]
          /\ pc' = to
          /\ log' = Append(log, Event("handshake", "CCM_CDHIPR", "", 0))
          /\ UNCHANGED <<mem, checks, hz, timings, ret, query, op>>

\* wait_for_handshake: one turn of the loop at `from`
WaitForHandshake(from, to) ==
    /\ pc = from
    /\ \/ /\ mem["CCM_CDHIPR"] # {}
          /\ UNCHANGED vars
       \/ /\ mem["CCM_CDHIPR"] = {}
          /\ pc' = to
          /\ log' = Append(log, Event("handshake", "CCM_CDHIPR", "", 0))
          /\ UNCHANGED <<mem, checks, hz, timings, ret, query, op>>

Call(h) ==
    /\ pc = "idle"
    /\ pc' = "clk2_podf"
    /\ hz' = h
    /\ timings' = NoOutcome
    /\ ret' = NoRet
    /\ query' = NoRet
    /\ log' = <<>>
    /\ op' = [name |-> "set_frequency", before |-> mem]
    /\ UNCHANGED <<mem, checks>>

\* on_ahb_clk_oscillator, before func (arm.rs 65-72)
SetClk2Podf ==
    Modify("clk2_podf", "clk2_sel", "CCM_CBCDR", "PERIPH_CLK2_PODF", PERIPH_CLK2_PODF, 0)

\* the auxiliary selector stored with Field::write_zero
SetClk2SelWriteZero ==
    /\ pc = "clk2_sel"
    /\ pc' = "wait_clk2"
    /\ CcmWrite("CCM_CBCMR", FieldWriteZero(PERIPH_CLK2_SEL, Bits(1)))
    /\ log' = Append(log, Event("write", "CCM_CBCMR", "PERIPH_CLK2_SEL", 1))
    /\ UNCHANGED <<checks, hz, timings, ret, query, op>>

SetClk2Sel ==
    Modify("clk2_sel", "wait_clk2", "CCM_CBCMR", "PERIPH_CLK2_SEL", PERIPH_CLK2_SEL, 1)

\* the first switch going on without its handshake wait
WaitClk2Skipped ==
    /\ pc = "wait_clk2"
    /\ pc' = "to_osc"
    /\ UNCHANGED <<mem, checks, hz, timings, ret, query, log, op>>

WaitClk2 == WaitForHandshake("wait_clk2", "to_osc")

\* the switch to PERIPH_CLK2 writing the wrong selector value
SwitchToOscillatorWrong ==
    Modify("to_osc", "wait_osc", "CCM_CBCDR", "PERIPH_CLK_SEL", PERIPH_CLK_SEL, 0)

SwitchToOscillator ==
    Modify("to_osc", "wait_osc", "CCM_CBCDR", "PERIPH_CLK_SEL", PERIPH_CLK_SEL, 1)

WaitOscillator == WaitForHandshake("wait_osc", "target")

\* the closure: Timings::target(hz) (arm.rs 248)
ComputeTarget ==
    /\ pc = "target"
    /\ \E r \in {TimingsTarget(hz, checks)} :
          /\ timings' = r
          /\ pc' = IF r.panic THEN "panicked" ELSE "powerdown"
    /\ UNCHANGED <<mem, checks, hz, ret, query, log, op>>

\* restart_pll_arm (arm.rs 163-176)
PllPowerdown ==
    /\ pc = "powerdown"
    /\ pc' = "div_sel"
    /\ PllWrite(FieldWriteZero(POWERDOWN, Bits(1)))
    /\ log' = Append(log, Event("write", "CCM_ANALOG_PLL_ARM", "POWERDOWN", 1))
    /\ UNCHANGED <<checks, hz, timings, ret, query, op>>

\* the multiplier stored with Field::modify, which keeps POWERDOWN set
PllDivSelModify ==
    /\ pc = "div_sel"
    /\ pc' = "enable"
    /\ PllWrite(FieldModify(DIV_SEL, mem["CCM_ANALOG_PLL_ARM"], Bits(timings.t.pll_arm_div_sel)))
    /\ log' = Append(log, Event("write", "CCM_ANALOG_PLL_ARM", "DIV_SEL",
                                timings.t.pll_arm_div_sel))
    /\ UNCHANGED <<checks, hz, timings, ret, query, op>>

PllDivSel ==
    /\ pc = "div_sel"
    /\ pc' = "enable"
    /\ PllWrite(FieldWriteZero(DIV_SEL, Bits(timings.t.pll_arm_div_sel)))
    /\ log' = Append(log, Event("write", "CCM_ANALOG_PLL_ARM", "DIV_SEL",
                                timings.t.pll_arm_div_sel))
    /\ UNCHANGED <<checks, hz, timings, ret, query, op>>

\* ENABLE stored with Field::write_zero, which clears the multiplier
PllEnableWriteZero ==
    /\ pc = "enable"
    /\ pc' = "wait_lock"
    /\ PllWrite(FieldWriteZero(ENABLE, Bits(1)))
    /\ log' = Append(log, Event("write", "CCM_ANALOG_PLL_ARM", "ENABLE", 1))
    /\ UNCHANGED <<checks, hz, timings, ret, query, op>>

PllEnable ==
    /\ pc = "enable"
    /\ pc' = "wait_lock"
    /\ PllWrite(FieldModify(ENABLE, mem["CCM_ANALOG_PLL_ARM"], Bits(1)))
    /\ log' = Append(log, Event("write", "CCM_ANALOG_PLL_ARM", "ENABLE", 1))
    /\ UNCHANGED <<checks, hz, timings, ret, query, op>>

WaitLock ==
    /\ pc = "wait_lock"
    /\ \/ /\ mem["CCM_ANALOG_PLL_ARM"] \cap LOCK = {}
          /\ UNCHANGED vars
       \/ /\ mem["CCM_ANALOG_PLL_ARM"] \cap LOCK # {}
          /\ pc' = "arm_podf"
          /\ log' = Append(log, Event("lock", "CCM_ANALOG_PLL_ARM", "LOCK", 1))
          /\ UNCHANGED <<mem, checks, hz, timings, ret, query, op>>

\* set_timings (arm.rs 187-195)
SetArmPodf ==
    Modify("arm_podf", "wait_arm", "CCM_CACCR", "ARM_PODF", ARM_PODF,
           SaturatingSub1(timings.t.div_arm))

\* set_timings going on to AHB_PODF without the wait
WaitArmPodfSkipped ==
    /\ pc = "wait_arm"
    /\ pc' = "ahb_podf"
    /\ UNCHANGED <<mem, checks, hz, timings, ret, query, log, op>>

WaitArmPodf == WaitForHandshake("wait_arm", "ahb_podf")

SetAhbPodf ==
    Modify("ahb_podf", "wait_ahb", "CCM_CBCDR", "AHB_PODF", AHB_PODF,
           SaturatingSub1(timings.t.div_ahb))

WaitAhbPodf == WaitForHandshake("wait_ahb", "ipg_podf")

SetIpgPodf ==
    Modify("ipg_podf", "result", "CCM_CBCDR", "IPG_PODF", IPG_PODF,
           SaturatingSub1(timings.t.div_ipg))

\* the closure's value (arm.rs 251)
ClosureResult ==
    /\ pc = "result"
    /\ pc' = "pre_periph"
    /\ ret' = [arm |-> timings.t.arm_hz, ipg |-> ipg_hz(timings.t)]
    /\ UNCHANGED <<mem, checks, hz, timings, query, log, op>>

\* on_ahb_clk_oscillator, after func (arm.rs 76-83)
\* the pre-peripheral mux left on source 0 (PLL2) instead of 3 (PLL1)
SetPrePeriphWrong ==
    Modify("pre_periph", "to_pll", "CCM_CBCMR", "PRE_PERIPH_CLK_SEL", PRE_PERIPH_CLK_SEL, 0)

SetPrePeriph ==
    Modify("pre_periph", "to_pll", "CCM_CBCMR", "PRE_PERIPH_CLK_SEL", PRE_PERIPH_CLK_SEL, 3)

\* the switch back writing the selector of the auxiliary path again
SwitchToPllStays ==
    Modify("to_pll", "wait_pll", "CCM_CBCDR", "PERIPH_CLK_SEL", PERIPH_CLK_SEL, 1)

SwitchToPll ==
    Modify("to_pll", "wait_pll", "CCM_CBCDR", "PERIPH_CLK_SEL", PERIPH_CLK_SEL, 0)

WaitPll == WaitForHandshake("wait_pll", "return")

Return ==
    /\ pc = "return"
    /\ pc' = "idle"
    /\ UNCHANGED <<mem, checks, hz, timings, ret, query, log, op>>

\* timings_ (arm.rs 211-224) on the register contents
RegTimings(caccr, cbcdr, pll_arm) ==
    LET div_arm == FieldRead(ARM_PODF, caccr) + 1
        div_ahb == FieldRead(AHB_PODF, cbcdr) + 1
        div_ipg == FieldRead(IPG_PODF, cbcdr) + 1
        pll_arm_div_sel == FieldRead(DIV_SEL, pll_arm)
    IN [pll_arm_div_sel |-> pll_arm_div_sel,
        div_arm |-> div_arm,
        div_ahb |-> div_ahb,
        arm_hz |-> compute_arm_hz(div_arm, div_ahb, pll_arm_div_sel),
        div_ipg |-> div_ipg]

\* frequency() clearing CCM_CACCR after reading it
FrequencyClearing ==
    /\ pc = "idle"
    /\ LET t == RegTimings(mem["CCM_CACCR"], mem["CCM_CBCDR"], mem["CCM_ANALOG_PLL_ARM"])
       IN query' = [arm |-> t.arm_hz, ipg |-> ipg_hz(t)]
    /\ mem' = [mem EXCEPT !["CCM_CACCR"] = {}]
    /\ UNCHANGED <<pc, checks, hz, timings, ret, log, op>>

\* frequency (arm.rs 265-268)
Frequency ==
    /\ pc = "idle"
    /\ LET t == RegTimings(mem["CCM_CACCR"], mem["CCM_CBCDR"], mem["CCM_ANALOG_PLL_ARM"])
       IN query' = [arm |-> t.arm_hz, ipg |-> ipg_hz(t)]
    /\ UNCHANGED <<mem, pc, checks, hz, timings, ret, log, op>>

(***************************************************************************)
(* Inputs                                                                  *)
(***************************************************************************)
\* number of steps of the coarse grid over u32
GridMax == 428

Dividers == {<<a, b>> : a \in 1 .. 8, b \in 1 .. 5}

\* targets next to every multiplier step and every rounding boundary of
\* every divider pair
StepTargets ==
    {OfInt(((k * 12000000 + half) \div (d[1] * d[2])) + delta) :
        k \in 54 .. 108, half \in {0, 6000000}, d \in Dividers, delta \in {-1, 0, 1}}

\* a coarse grid over the whole of u32, in steps of 10,000,019
GridTargets == {MulExact(U32(10, 19), k) : k \in 0 .. GridMax}

\* the ends of the range and of the window in which the sum
\* arm_hz + 6_000_000 passes u32::MAX
EdgeTargets ==
    {U32(0, 0), U32(0, 1), U32(16, 199999), U32(600, 0), U32(600, 100),
     U32(1296, 0), U32(1296, 1), U32(1302, 0), U32(2147, 483647), U32(2147, 483648),
     U32(4288, 967295), U32(4288, 967296), U32(4290, 0), U32(4294, 0),
     U32(4294, 967294), U32Max}

Targets == StepTargets \cup GridTargets \cup EdgeTargets

\* the targets set_frequency is called with
CallTargets ==
    {U32(0, 0), U32(24, 0), U32(150, 1), U32(600, 0), U32(600, 100),
     U32(1296, 0), U32Max}

\* register contents before the first call: cleared (CCM_CBCDR with the
\* auxiliary divider at 8), all ones, and values of a running system
\* (0x000A8200, 0x75AE8104; PLL powered down and bypassed 0x00013042, PLL
\* running and locked 0x80002042)
InitCBCDR == {PERIPH_CLK2_PODF.mask, BitPos, Bits(688640)}
InitCBCMR == {{}, BitPos, Bits(1974370564)}
InitCACCR == {{}, BitPos}
InitPLL == {Bits(77890), Bits(8258) \cup LOCK, BitPos}
InitCDHIPR == {{}, {5}}

(***************************************************************************)
(* Specifications                                                          *)
(***************************************************************************)
Init ==
    /\ \E cbcdr \in InitCBCDR, cbcmr \in InitCBCMR, caccr \in InitCACCR,
          pll \in InitPLL, cdhipr \in InitCDHIPR :
          mem = [r \in {"CCM_CACCR", "CCM_CBCDR", "CCM_CBCMR",
                        "CCM_ANALOG_PLL_ARM", "CCM_CDHIPR"} |->
                    CASE r = "CCM_CACCR" -> caccr
                      [] r = "CCM_CBCDR" -> cbcdr
                      [] r = "CCM_CBCMR" -> cbcmr
                      [] r = "CCM_ANALOG_PLL_ARM" -> pll
                      [] r = "CCM_CDHIPR" -> cdhipr]
    /\ pc = "idle"
    /\ checks \in BOOLEAN
    /\ hz = U32(0, 0)
    /\ timings = NoOutcome
    /\ ret = NoRet
    /\ query = NoRet
    /\ log = <<>>
    /\ op = NoOp

Program ==
    \/ \E h \in CallTargets : Call(h)
    \/ SetClk2Podf
    \/ SetClk2Sel
    \/ WaitClk2
    \/ SwitchToOscillator
    \/ WaitOscillator
    \/ ComputeTarget
    \/ PllPowerdown
    \/ PllDivSel
    \/ PllEnable
    \/ WaitLock
    \/ SetArmPodf
    \/ WaitArmPodf
    \/ SetAhbPodf
    \/ WaitAhbPodf
    \/ SetIpgPodf
    \/ ClosureResult
    \/ SetPrePeriph
    \/ SwitchToPll
    \/ WaitPll
    \/ Return
    \/ Frequency

Next == Program \/ HwHandshake \/ HwLock

Spec == Init /\ [][Next]_vars

\* correct hardware: every pending handshake is acknowledged, an enabled
\* PLL locks, and the processor keeps executing
FairSpec == Spec /\ WF_vars(Program) /\ WF_vars(HwHandshake) /\ WF_vars(HwLock)

\* Timings::target alone, over the sampled u32 targets
InitTimings ==
    /\ mem = [r \in {"CCM_CACCR", "CCM_CBCDR", "CCM_CBCMR",
                     "CCM_ANALOG_PLL_ARM", "CCM_CDHIPR"} |-> {}]
    /\ pc = "pure"
    /\ checks \in BOOLEAN
    /\ hz \in Targets
    /\ timings = NoOutcome
    /\ ret = NoRet
    /\ query = NoRet
    /\ log = <<>>
    /\ op = NoOp

Target ==
    /\ pc = "pure"
    /\ pc' = "computed"
    /\ \E r \in {TimingsTarget(hz, checks)} :
          /\ timings' = r
          /\ ret' = IF r.panic THEN NoRet
                    ELSE [arm |-> r.t.arm_hz, ipg |-> ipg_hz(r.t)]
    /\ UNCHANGED <<mem, checks, hz, query, log, op>>

\* Timings::target called again with the arm_hz it has just described
Retarget ==
    /\ pc = "computed"
    /\ ~timings.panic
    /\ pc' = "recomputed"
    /\ \E r \in {TimingsTarget(OfInt(timings.t.arm_hz), checks)} :
          op' = [name |-> "Timings::target", again |-> r]
    /\ UNCHANGED <<mem, checks, hz, timings, ret, query, log>>

NextAgain == Target \/ Retarget

SpecAgain == InitTimings /\ [][NextAgain]_vars

NextTimings == Target

SpecTimings == InitTimings /\ [][NextTimings]_vars

\* register contents for frequency() alone: every value of the four fields
\* it reads, the bits outside them all 0 or all 1
RegContents ==
    {[caccr |-> Shl(Bits(a), ARM_PODF.offset) \cup (rest \ ARM_PODF.mask),
      cbcdr |-> Shl(Bits(b), AHB_PODF.offset) \cup Shl(Bits(i), IPG_PODF.offset)
                   \cup (rest \ (AHB_PODF.mask \cup IPG_PODF.mask)),
      pll |-> Shl(Bits(p), DIV_SEL.offset) \cup (rest \ DIV_SEL.mask)] :
        a \in 0 .. 7, b \in 0 .. 7, i \in 0 .. 3, p \in 0 .. 127, rest \in {{}, BitPos}}

InitQuery ==
    /\ \E c \in RegContents :
          mem = [r \in {"CCM_CACCR", "CCM_CBCDR", "CCM_CBCMR",
                        "CCM_ANALOG_PLL_ARM", "CCM_CDHIPR"} |->
                    CASE r = "CCM_CACCR" -> c.caccr
                      [] r = "CCM_CBCDR" -> c.cbcdr
                      [] r = "CCM_ANALOG_PLL_ARM" -> c.pll
                      [] OTHER -> {}]
    /\ pc = "idle"
    /\ checks \in BOOLEAN
    /\ hz = U32(0, 0)
    /\ timings = NoOutcome
    /\ ret = NoRet
    /\ query = NoRet
    /\ log = <<>>
    /\ op = NoOp

\* the two pure computations: Timings::target over the sampled targets and
\* frequency() over the register contents
InitPure == InitTimings \/ InitQuery

NextPure == Target \/ Frequency

SpecPure == InitPure /\ [][NextPure]_vars

(***************************************************************************)
(* Clock gates (gate.rs 7-27)                                              *)
(*                                                                         *)
(* A clock gate register holds sixteen 2-bit gate fields, gate g at bits   *)
(* 2g and 2g+1.                                                            *)
(***************************************************************************)
GateMask == {0, 1}

\* the loop body of set_clock_gate_ without MASK & on the value
SetGateUnmasked(register, gate, value) ==
    (register \ Shl(GateMask, gate * 2)) \cup Shl(Bits(value), gate * 2)

\* the loop body of set_clock_gate_: one gate of the list
SetGate(register, gate, value) ==
    (register \ Shl(GateMask, gate * 2)) \cup Shl(GateMask \cap Bits(value), gate * 2)

\* the loop of set_clock_gate_ from the i-th gate of the list on
RECURSIVE SetGatesFrom(_, _, _, _)
SetGatesFrom(register, gates, value, i) ==
    IF i > Len(gates) THEN register
    ELSE SetGatesFrom(SetGate(register, gates[i], value), gates, value, i + 1)

\* set_clock_gate_: the register content written back
set_clock_gate_(register, gates, value) == SetGatesFrom(register, gates, value, 1)

\* get_clock_gate_
get_clock_gate_(register, gate) == Num(Shr(register, gate * 2) \cap GateMask)

\* inputs of the two functions: register contents, gate lists, u8 values
GateRegisters ==
    {{}, BitPos, {i \in BitPos : i % 2 = 0}, {i \in BitPos : i % 2 = 1}, Bits(768),
     Bits(49344)}

GateLists ==
    {<<>>, <<3, 7>>, <<7, 3, 7>>, [i \in 1 .. 16 |-> i - 1]}
        \cup {<<g>> : g \in 0 .. 15}
        \cup {<<g, g>> : g \in 0 .. 15}
        \cup {<<g, (g + 5) % 16>> : g \in 0 .. 15}

GateValues == {0, 1, 2, 3, 4, 5, 254, 255}

InitGate ==
    /\ \E register \in GateRegisters, gates \in GateLists, value \in GateValues :
          /\ mem = [r \in {"CCGR"} |-> register]
          /\ op = [name |-> "set_clock_gate_", register |-> register,
                   gates |-> gates, value |-> value]
    /\ pc = "gate"
    /\ checks \in {FALSE}
    /\ hz = U32(0, 0)
    /\ timings = NoOutcome
    /\ ret = NoRet
    /\ query = NoRet
    /\ log = <<>>

\* set_clock_gate_(&mut reg, gates, value)
SetClockGateRaw ==
    /\ pc = "gate"
    /\ pc' = "gate_set"
    /\ mem' = [mem EXCEPT !["CCGR"] = set_clock_gate_(@, op.gates, op.value)]
    /\ UNCHANGED <<checks, hz, timings, ret, query, log, op>>

\* get_clock_gate_(&reg, gate) on the register just written
GetClockGateRaw ==
    /\ pc = "gate_set"
    /\ pc' = "gate_got"
    /\ \E gate \in 0 .. 15 :
          op' = [name |-> "get_clock_gate_", register |-> op.register, gates |-> op.gates,
                 value |-> op.value, gate |-> gate,
                 result |-> get_clock_gate_(mem["CCGR"], gate)]
    /\ UNCHANGED <<mem, checks, hz, timings, ret, query, log>>

(***************************************************************************)
(* Peripheral instances and their clock gates (lib.rs 298-356)             *)
(*                                                                         *)
(* I::is_valid is supplied by the user of the crate: `valid` is the set of *)
(* instance identifiers for which it returns true.                         *)
(***************************************************************************)
Off == 0
OnlyRun == 1
On == 3

\* a gate argument that may be any 2-bit pattern
ClockGatesRaw == 0 .. 3

ClockGates == {Off, OnlyRun, On}

\* the instance identifiers of each peripheral class, in declaration order
I2C == <<"I2C1", "I2C2", "I2C3", "I2C4">>
SPI == <<"SPI1", "SPI2", "SPI3", "SPI4">>
UART == <<"UART1", "UART2", "UART3", "UART4", "UART5", "UART6", "UART7", "UART8">>
GPT == <<"GPT1", "GPT2">>
PIT == <<"PIT">>
ADC == <<"ADC1", "ADC2">>
PWM == <<"PWM1", "PWM2", "PWM3", "PWM4">>
DCDC == <<"DCDC">>
DMA == <<"DMA">>

Classes == {I2C, SPI, UART, GPT, PIT, ADC, PWM, DCDC, DMA}

Members(class) == {class[i] : i \in 1 .. Len(class)}

ClockGateLocation(offset, gates) == [offset |-> offset, gates |-> gates]

\* ClockGateLocator::location of every instance identifier
location(inst) ==
    CASE inst = "I2C1" -> ClockGateLocation(2, <<3>>)
      [] inst = "I2C2" -> ClockGateLocation(2, <<4>>)
      [] inst = "I2C3" -> ClockGateLocation(2, <<5>>)
      [] inst = "I2C4" -> ClockGateLocation(6, <<12>>)
      [] inst = "SPI1" -> ClockGateLocation(1, <<0>>)
      [] inst = "SPI2" -> ClockGateLocation(1, <<1>>)
      [] inst = "SPI3" -> ClockGateLocation(1, <<2>>)
      [] inst = "SPI4" -> ClockGateLocation(1, <<3>>)
      [] inst = "UART1" -> ClockGateLocation(5, <<12>>)
      [] inst = "UART2" -> ClockGateLocation(0, <<14>>)
      [] inst = "UART3" -> ClockGateLocation(0, <<6>>)
      [] inst = "UART4" -> ClockGateLocation(1, <<12>>)
      [] inst = "UART5" -> ClockGateLocation(3, <<1>>)
      [] inst = "UART6" -> ClockGateLocation(3, <<3>>)
      [] inst = "UART7" -> ClockGateLocation(5, <<13>>)
      [] inst = "UART8" -> ClockGateLocation(6, <<7>>)
      [] inst = "GPT1" -> ClockGateLocation(1, <<10, 11>>)
      [] inst = "GPT2" -> ClockGateLocation(0, <<12, 13>>)
      [] inst = "PIT" -> ClockGateLocation(1, <<6>>)
      [] inst = "ADC1" -> ClockGateLocation(1, <<8>>)
      [] inst = "ADC2" -> ClockGateLocation(1, <<4>>)
      [] inst = "PWM1" -> ClockGateLocation(4, <<8>>)
      [] inst = "PWM2" -> ClockGateLocation(4, <<9>>)
      [] inst = "PWM3" -> ClockGateLocation(4, <<10>>)
      [] inst = "PWM4" -> ClockGateLocation(4, <<11>>)
      [] inst = "DCDC" -> ClockGateLocation(6, <<3>>)
      [] inst = "DMA" -> ClockGateLocation(5, <<3>>)

\* the clock gate register at CCGR_BASE.add(offset)
Ccgr(offset) ==
    <<"CCGR0", "CCGR1", "CCGR2", "CCGR3", "CCGR4", "CCGR5", "CCGR6", "CCGR7">>[offset + 1]

CcgrRegs == {Ccgr(offset) : offset \in 0 .. 7}

\* check_instance reporting every identifier valid
check_instance_any(valid, inst) == TRUE

\* check_instance: whether Some(inst) passes the filter
check_instance(valid, inst) == inst \in valid

\* gate::set: set_clock_gate on the register the location names; m is the
\* memory, the result the memory after the volatile write
gate_set(m, loc, value) ==
    [m EXCEPT ![Ccgr(loc.offset)] = set_clock_gate_(@, loc.gates, value)]

\* gate::get: get_clock_gate of the location's first gate
gate_get(m, loc) == get_clock_gate_(m[Ccgr(loc.offset)], loc.gates[1])

\* the volatile accesses of gate::set and gate::get, for the log
GateAccess(ev, loc) == Event(ev, Ccgr(loc.offset), "", 0)

\* the outcome of the unreachable!() arm of ClockGate::from_u8: a panic
Unreachable == -1

\* ClockGate::from_u8
from_u8(raw) ==
    CASE raw % 4 = Off -> Off
      [] raw % 4 = OnlyRun -> OnlyRun
      [] raw % 4 = On -> On
      [] OTHER -> Unreachable

None == [some |-> FALSE]

Some(x) == [some |-> TRUE, value |-> x]

\* set_clock_gate::<I>(inst, gate): memory and log afterwards
set_clock_gate(m, l, valid, inst, gate) ==
    IF check_instance(valid, inst)
    THEN [mem |-> gate_set(m, location(inst), gate),
          log |-> l \o <<GateAccess("read", location(inst)), GateAccess("write", location(inst))>>]
    ELSE [mem |-> m, log |-> l]

\* get_clock_gate::<I>(inst)
get_clock_gate(m, valid, inst) ==
    IF check_instance(valid, inst)
    THEN Some(from_u8(gate_get(m, location(inst))))
    ELSE None

\* the sets I::is_valid may accept: the first k identifiers of a class
ValidSets(class) == {{class[i] : i \in 1 .. k} : k \in 0 .. Len(class)}

\* clock gate register contents in which every field is Off, OnlyRun or On
GateContents ==
    {{}, BitPos, {i \in BitPos : i % 2 = 0}, Bits(1019281359), Bits(214971507)}

PeriphRegs ==
    CcgrRegs \cup {"CSCDR2", "CCM_CBCMR", "CSCDR1", "CSCMR1",
                   "CCM_CACCR", "CCM_CBCDR", "CCM_ANALOG_PLL_ARM"}

InitClockGate ==
    /\ \E class \in Classes, content \in GateContents :
          \E inst \in Members(class), valid \in ValidSets(class), gate \in ClockGates :
              /\ mem = [r \in PeriphRegs |-> content]
              /\ op = [name |-> "set_clock_gate", before |-> [r \in PeriphRegs |-> content],
                       inst |-> inst, valid |-> valid, gate |-> gate]
    /\ pc = "clock_gate"
    /\ checks \in {FALSE}
    /\ hz = U32(0, 0)
    /\ timings = NoOutcome
    /\ ret = NoRet
    /\ query = NoRet
    /\ log = <<>>

\* set_clock_gate::<I>(inst, gate)
SetClockGate ==
    /\ pc = "clock_gate"
    /\ pc' = "clock_gate_set"
    /\ \E r \in {set_clock_gate(mem, log, op.valid, op.inst, op.gate)} :
          mem' = r.mem /\ log' = r.log
    /\ UNCHANGED <<checks, hz, timings, ret, query, op>>

\* get_clock_gate::<I>(inst) after the set
GetClockGate ==
    /\ pc = "clock_gate_set"
    /\ pc' = "clock_gate_got"
    /\ op' = [name |-> "get_clock_gate", before |-> op.before, inst |-> op.inst,
              valid |-> op.valid, gate |-> op.gate,
              result |-> get_clock_gate(mem, op.valid, op.inst)]
    /\ log' = IF check_instance(op.valid, op.inst)
              THEN Append(log, GateAccess("read", location(op.inst)))
              ELSE log
    /\ UNCHANGED <<mem, checks, hz, timings, ret, query>>

(***************************************************************************)
(* Clock roots: register.rs 44-84, i2c.rs, spi.rs, uart.rs, perclock.rs    *)
(*                                                                         *)
(* `imxrt1010` is the build's chip feature, which widens the SPI divider.  *)
(* A divider argument is a u32 (a limb pair), a register argument a set of *)
(* bits.                                                                   *)
(***************************************************************************)
\* Register::new
RegisterNew(divider, select, address) ==
    [divider |-> divider, select |-> select, address |-> address]

\* Register::set storing the divider without its mask
RegisterSetUnmasked(reg, v, divider, select) ==
    ((v \ (reg.divider.mask \cup reg.select.mask))
        \cup Shl(divider, reg.divider.offset))
        \cup (Shl(select, reg.select.offset) \cap reg.select.mask)

\* Register::set: the value written back over the content v
RegisterSet(reg, v, divider, select) ==
    ((v \ (reg.divider.mask \cup reg.select.mask))
        \cup (Shl(divider, reg.divider.offset) \cap reg.divider.mask))
        \cup (Shl(select, reg.select.offset) \cap reg.select.mask)

\* Register::divider
RegisterDivider(reg, v) == Num(Shr(v \cap reg.divider.mask, reg.divider.offset))

\* Register::selection
RegisterSelection(reg, v) == Num(Shr(v \cap reg.select.mask, reg.select.offset))

LPI2C_CLK_PODF == FieldNew(19, 63)
LPI2C_CLK_SEL == FieldNew(18, 1)
CSCDR2 == RegisterNew(LPI2C_CLK_PODF, LPI2C_CLK_SEL, "CSCDR2")

LPSPI_PODF(imxrt1010) == FieldNew(26, IF imxrt1010 THEN 15 ELSE 7)
LPSPI_SEL == FieldNew(4, 3)
CBCMR(imxrt1010) == RegisterNew(LPSPI_PODF(imxrt1010), LPSPI_SEL, "CCM_CBCMR")

UART_CLK_PODF == FieldNew(0, 63)
UART_CLK_SEL == FieldNew(6, 3)
CSCDR1 == RegisterNew(UART_CLK_PODF, UART_CLK_SEL, "CSCDR1")

PERCLK_PODF == FieldNew(0, 63)
PERCLK_SEL == FieldNew(6, 1)
CSCMR1 == RegisterNew(PERCLK_PODF, PERCLK_SEL, "CSCMR1")

OSCILLATOR_FREQUENCY_HZ == 24000000
SPI_CLOCK_FREQUENCY_HZ == 528000000

\* SPI's MAX_DIVIDER
MAX_DIVIDER(imxrt1010) == IF imxrt1010 THEN 16 ELSE 8

\* the clamped divider stored as it is, without the subtraction of 1
DividerFieldNoSub(divider, max) ==
    Max(IF Lt(divider, U32(0, max)) THEN ToInt(divider) ELSE max, 1)

\* divider.min(max).max(1).saturating_sub(1) for a u32 divider
DividerField(divider, max) ==
    SaturatingSub1(Max(IF Lt(divider, U32(0, max)) THEN ToInt(divider) ELSE max, 1))

\* the root register of a peripheral class
RootRegister(root, imxrt1010) ==
    CASE root = "i2c" -> CSCDR2
      [] root = "spi" -> CBCMR(imxrt1010)
      [] root = "uart" -> CSCDR1
      [] root = "perclock" -> CSCMR1

\* configure_ of i2c.rs, spi.rs, uart.rs and perclock.rs: the memory after
\* Register::set
configure_(m, root, divider, selection, imxrt1010) ==
    LET reg == RootRegister(root, imxrt1010)
        field == CASE root = "spi" -> DividerField(divider, MAX_DIVIDER(imxrt1010))
                   [] OTHER -> DividerField(divider, 64)
        select == CASE root = "spi" -> 2
                    [] root = "perclock" -> (IF selection = "Oscillator" THEN 1 ELSE 0)
                    [] OTHER -> 1
    IN [m EXCEPT ![reg.address] = RegisterSet(reg, @, Bits(field), Bits(select))]

\* frequency_ of i2c.rs, spi.rs, uart.rs and perclock.rs
frequency_(m, root, imxrt1010) ==
    LET reg == RootRegister(root, imxrt1010)
        divider == RegisterDivider(reg, m[reg.address]) + 1
    IN CASE root = "spi" -> SPI_CLOCK_FREQUENCY_HZ \div divider
         [] root = "perclock" ->
              (IF RegisterSelection(reg, m[reg.address]) = 1
               THEN OSCILLATOR_FREQUENCY_HZ \div divider
               ELSE ipg_hz(RegTimings(m["CCM_CACCR"], m["CCM_CBCDR"],
                                      m["CCM_ANALOG_PLL_ARM"])) \div divider)
         [] OTHER -> OSCILLATOR_FREQUENCY_HZ \div divider

Roots == {"i2c", "spi", "uart", "perclock"}

\* largest of the small divider arguments tried
MaxDividerArg == 70

DividerArgs ==
    {U32(0, k) : k \in 0 .. MaxDividerArg}
        \cup {U32(0, 255), U32(0, 256), U32(2147, 483647), U32(2147, 483648), U32Max}

\* root register contents before the call; the ARM registers hold the
\* timings of 600 MHz (multiplier 100, div_arm 2, div_ahb 1, div_ipg 4)
RootContents == {{}, BitPos, Bits(100794502)}

RootMemory(content) ==
    [r \in PeriphRegs |->
        CASE r = "CCM_CACCR" -> Bits(1)
          [] r = "CCM_CBCDR" -> Shl(Bits(3), IPG_PODF.offset)
          [] r = "CCM_ANALOG_PLL_ARM" -> Bits(100) \cup ENABLE.mask \cup LOCK
          [] OTHER -> content]

InitRoot ==
    /\ \E root \in Roots, divider \in DividerArgs, content \in RootContents,
          selection \in {"Oscillator", "IPG"}, imxrt1010 \in BOOLEAN :
          /\ root # "perclock" => selection = "Oscillator"
          /\ mem = RootMemory(content)
          /\ op = [name |-> "configure", before |-> RootMemory(content), root |-> root,
                   divider |-> divider, selection |-> selection, imxrt1010 |-> imxrt1010]
    /\ pc = "root"
    /\ checks \in {FALSE}
    /\ hz = U32(0, 0)
    /\ timings = NoOutcome
    /\ ret = NoRet
    /\ query = NoRet
    /\ log = <<>>

\* configure of a clock root
ConfigureRoot ==
    /\ pc = "root"
    /\ pc' = "root_configured"
    /\ mem' = configure_(mem, op.root, op.divider, op.selection, op.imxrt1010)
    /\ UNCHANGED <<checks, hz, timings, ret, query, log, op>>

\* frequency of the clock root just configured
FrequencyRoot ==
    /\ pc = "root_configured"
    /\ pc' = "root_queried"
    /\ op' = [name |-> "frequency", before |-> op.before, root |-> op.root,
              divider |-> op.divider, selection |-> op.selection,
              imxrt1010 |-> op.imxrt1010,
              result |-> frequency_(mem, op.root, op.imxrt1010)]
    /\ UNCHANGED <<mem, checks, hz, timings, ret, query, log>>

\* the peripheral clock operations, each called once on inputs drawn at
\* the start
(***************************************************************************)
(* Root configuration with the class's gates: i2c.rs 27-45, spi.rs 26-47,  *)
(* uart.rs 27-50, perclock.rs 136-157                                      *)
(***************************************************************************)
\* the instances whose gates a root's configuration method names, in order
RootGated(root) ==
    CASE root = "i2c" -> I2C
      [] root = "spi" -> SPI
      [] root = "uart" -> UART
      [] root = "perclock" -> GPT \o PIT

\* set_clock_gate::<I>(inst, ClockGate::Off) for each instance in turn
RECURSIVE SetGatesOff(_, _, _)
SetGatesOff(s, valid, insts) ==
    IF insts = <<>> THEN s
    ELSE SetGatesOff(set_clock_gate(s.mem, s.log, valid, Head(insts), Off),
                     valid, Tail(insts))

\* the volatile accesses of Register::set, for the log
RootAccess(ev, root) == Event(ev, RootRegister(root, FALSE).address, "", 0)

\* the configuration method writing the root register before the gates
configure_divider_root_first(m, l, root, valid, divider, selection, imxrt1010) ==
    SetGatesOff([mem |-> configure_(m, root, divider, selection, imxrt1010),
                 log |-> l \o <<RootAccess("read", root), RootAccess("write", root)>>],
                valid, RootGated(root))

\* the configuration method leaving the gates alone
configure_divider_only(m, l, root, valid, divider, selection, imxrt1010) ==
    [mem |-> configure_(m, root, divider, selection, imxrt1010),
     log |-> l \o <<RootAccess("read", root), RootAccess("write", root)>>]

\* I2CClock::configure_divider, SPIClock::configure_divider,
\* Disabled<UARTClock>::enable_divider and
\* Disabled<PerClock>::enable_selection_divider: memory and log afterwards
configure_divider(m, l, root, valid, divider, selection, imxrt1010) ==
    LET gated == SetGatesOff([mem |-> m, log |-> l], valid, RootGated(root))
    IN [mem |-> configure_(gated.mem, root, divider, selection, imxrt1010),
        log |-> gated.log \o <<RootAccess("read", root), RootAccess("write", root)>>]

\* the sets the Instance implementations of a root may accept
RootValidSets(root) ==
    IF root = "uart" THEN ValidSets(UART) \cup {{"UART2", "UART8"}, {"UART5"}}
    ELSE SUBSET Members(RootGated(root))

\* clock gate register contents before the call, the reserved pattern 0b10
\* included
AnyGateContents == GateContents \cup {{i \in BitPos : i % 2 = 1}, Bits(613566756)}

InitConfigureDivider ==
    /\ \E root \in Roots, content \in AnyGateContents,
          divider \in {U32(0, 0), U32(0, 3), U32Max}, imxrt1010 \in BOOLEAN :
          \E valid \in RootValidSets(root) :
              /\ mem = [r \in PeriphRegs |-> content]
              /\ op = [name |-> "configure_divider",
                       before |-> [r \in PeriphRegs |-> content], root |-> root,
                       valid |-> valid, divider |-> divider,
                       selection |-> "Oscillator", imxrt1010 |-> imxrt1010]
    /\ pc = "divider"
    /\ checks \in {FALSE}
    /\ hz = U32(0, 0)
    /\ timings = NoOutcome
    /\ ret = NoRet
    /\ query = NoRet
    /\ log = <<>>

\* the root's configuration method, from call to return
ConfigureDivider ==
    /\ pc = "divider"
    /\ pc' = "divider_done"
    /\ \E r \in {configure_divider(mem, log, op.root, op.valid, op.divider,
                                   op.selection, op.imxrt1010)} :
          /\ mem' = r.mem
          /\ log' = r.log
    /\ UNCHANGED <<checks, hz, timings, ret, query, op>>

(***************************************************************************)
(* The register accessors on their own: register.rs 22-41, 66-83           *)
(***************************************************************************)
\* the fields and registers of the driver
Fields ==
    {PERIPH_CLK2_PODF, PERIPH_CLK2_SEL, PERIPH_CLK_SEL, PRE_PERIPH_CLK_SEL, DIV_SEL,
     POWERDOWN, ENABLE, ARM_PODF, AHB_PODF, IPG_PODF, LPI2C_CLK_PODF, LPI2C_CLK_SEL,
     LPSPI_PODF(FALSE), LPSPI_PODF(TRUE), LPSPI_SEL, UART_CLK_PODF, UART_CLK_SEL,
     PERCLK_PODF, PERCLK_SEL}

Registers == {CSCDR2, CBCMR(FALSE), CBCMR(TRUE), CSCDR1, CSCMR1}

\* u32 arguments, as sets of bits: 0, 1, 3, 69, 255, 2^31 + 2^19 + 4, u32::MAX
ArgValues == {{}, Bits(1), Bits(3), Bits(69), Bits(255), {2, 19, 31}, BitPos}

InitAccessor ==
    /\ \E content \in RootContents :
          /\ mem = [r \in {"mem"} |-> content]
          /\ \/ \E f \in Fields, value \in ArgValues :
                    /\ op = [name |-> "modify", before |-> content, field |-> f,
                             value |-> value]
                    /\ pc = "field"
             \/ \E reg \in Registers, divider \in ArgValues, select \in ArgValues :
                    /\ op = [name |-> "set", before |-> content, reg |-> reg,
                             divider |-> divider, select |-> select]
                    /\ pc = "register"
    /\ checks \in {FALSE}
    /\ hz = U32(0, 0)
    /\ timings = NoOutcome
    /\ ret = NoRet
    /\ query = NoRet
    /\ log = <<>>

\* Field::modify
FieldModifyCall ==
    /\ pc = "field"
    /\ pc' = "field_modified"
    /\ mem' = [mem EXCEPT !["mem"] = FieldModify(op.field, @, op.value)]
    /\ UNCHANGED <<checks, hz, timings, ret, query, log, op>>

\* Field::read of the field just modified
FieldReadCall ==
    /\ pc = "field_modified"
    /\ pc' = "field_read"
    /\ op' = [name |-> "read", before |-> op.before, field |-> op.field,
              value |-> op.value, result |-> FieldRead(op.field, mem["mem"])]
    /\ UNCHANGED <<mem, checks, hz, timings, ret, query, log>>

\* Register::set
RegisterSetCall ==
    /\ pc = "register"
    /\ pc' = "register_set"
    /\ mem' = [mem EXCEPT !["mem"] = RegisterSet(op.reg, @, op.divider, op.select)]
    /\ UNCHANGED <<checks, hz, timings, ret, query, log, op>>

\* Register::divider of the register just set
RegisterDividerCall ==
    /\ pc = "register_set"
    /\ pc' = "register_read"
    /\ op' = [name |-> "divider", before |-> op.before, reg |-> op.reg,
              divider |-> op.divider, select |-> op.select,
              result |-> RegisterDivider(op.reg, mem["mem"])]
    /\ UNCHANGED <<mem, checks, hz, timings, ret, query, log>>

InitPeriph ==
    InitGate \/ InitClockGate \/ InitRoot \/ InitConfigureDivider \/ InitAccessor

NextPeriph ==
    \/ SetClockGateRaw
    \/ GetClockGateRaw
    \/ SetClockGate
    \/ GetClockGate
    \/ ConfigureRoot
    \/ FrequencyRoot
    \/ ConfigureDivider
    \/ FieldModifyCall
    \/ FieldReadCall
    \/ RegisterSetCall
    \/ RegisterDividerCall

SpecPeriph == InitPeriph /\ [][NextPeriph]_vars

(***************************************************************************)
(* set_frequency and SPI configure in sequence on the shared CCM_CBCMR     *)
(*                                                                         *)
(* The memory holds the clock gate and root registers next to those of     *)
(* arm.rs; the SPI root register is the CCM_CBCMR of arm.rs (0x400F_C018). *)
(***************************************************************************)
InitShared ==
    /\ \E cbcmr \in InitCBCMR, other \in {{}, BitPos} :
          mem = [r \in PeriphRegs \cup {"CCM_CDHIPR"} |->
                    CASE r = "CCM_CACCR" -> other
                      [] r = "CCM_CBCDR" -> Bits(688640)
                      [] r = "CCM_CBCMR" -> cbcmr
                      [] r = "CCM_ANALOG_PLL_ARM" -> Bits(8258) \cup LOCK
                      [] r = "CCM_CDHIPR" -> {}
                      [] OTHER -> other]
    /\ pc = "idle"
    /\ checks \in {FALSE}
    /\ hz = U32(0, 0)
    /\ timings = NoOutcome
    /\ ret = NoRet
    /\ query = NoRet
    /\ log = <<>>
    /\ op = NoOp

\* spi::configure between two calls of set_frequency
SpiConfigure ==
    /\ pc = "idle"
    /\ \E divider \in {U32(0, 1), U32(0, 6), U32(0, 16)}, imxrt1010 \in BOOLEAN :
          /\ mem' = configure_(mem, "spi", divider, "Oscillator", imxrt1010)
          /\ op' = [name |-> "configure", before |-> mem, root |-> "spi",
                    divider |-> divider, imxrt1010 |-> imxrt1010]
    /\ log' = <<>>
    /\ UNCHANGED <<pc, checks, hz, timings, ret, query>>

NextShared == Next \/ SpiConfigure

SpecShared == InitShared /\ [][NextShared]_vars

(***************************************************************************)
(* Two execution contexts on one register                                  *)
(*                                                                         *)
(* A read-modify-write is a volatile read, a computation on the value read *)
(* and a volatile write (register.rs 25-28, 71-75; gate.rs 10-18); nothing *)
(* keeps another context from running between the read and the write.     *)
(* op.rmw holds the call of each context, op.at its position, op.local the *)
(* value it has read.                                                      *)
(***************************************************************************)
Contexts == {"a", "b"}

\* the value a call writes back, having read v
Modified(rmw, v) ==
    CASE rmw.fn = "set_clock_gate_" -> set_clock_gate_(v, rmw.gates, rmw.value)
      [] rmw.fn = "Register::set" ->
            RegisterSet(rmw.reg, v, Bits(rmw.divider), Bits(rmw.select))
      [] rmw.fn = "Field::modify" -> FieldModify(rmw.field, v, Bits(rmw.value))

\* two clock-gate sets on different gates of one CCGR register
GateRaces ==
    {[reg |-> "CCGR2",
      rmw |-> [a |-> [fn |-> "set_clock_gate_", gates |-> <<3>>, value |-> x],
               b |-> [fn |-> "set_clock_gate_", gates |-> <<4>>, value |-> y]]] :
        x \in ClockGates, y \in ClockGates}

\* SPI configure and one of set_frequency's writes to CCM_CBCMR
CbcmrRaces ==
    {[reg |-> "CCM_CBCMR",
      rmw |-> [a |-> [fn |-> "Register::set", reg |-> CBCMR(FALSE),
                      divider |-> DividerField(U32(0, d), MAX_DIVIDER(FALSE)),
                      select |-> 2],
               b |-> m]] :
        d \in {1, 4, 8},
        m \in {[fn |-> "Field::modify", field |-> PERIPH_CLK2_SEL, value |-> 1],
               [fn |-> "Field::modify", field |-> PRE_PERIPH_CLK_SEL, value |-> 3]}}

InitRace ==
    /\ \E race \in GateRaces \cup CbcmrRaces, content \in GateContents \cup InitCBCMR :
          /\ mem = [r \in {race.reg} |-> content]
          /\ op = [name |-> "race", before |-> content, reg |-> race.reg,
                   rmw |-> race.rmw,
                   at |-> [c \in Contexts |-> "read"],
                   local |-> [c \in Contexts |-> {}]]
    /\ pc = "race"
    /\ checks \in {FALSE}
    /\ hz = U32(0, 0)
    /\ timings = NoOutcome
    /\ ret = NoRet
    /\ query = NoRet
    /\ log = <<>>

\* the write storing what the register holds now, modified, as if the
\* read-modify-write were one step
WriteAccessAtomic ==
    \E c \in Contexts :
        /\ pc = "race"
        /\ op.at[c] = "write"
        /\ mem' = [mem EXCEPT ![op.reg] = Modified(op.rmw[c], @)]
        /\ op' = [op EXCEPT !.at[c] = "done"]
        /\ log' = Append(log, Event("write", op.reg, c, 0))
        /\ UNCHANGED <<pc, checks, hz, timings, ret, query>>

\* read_volatile of a context
ReadAccess ==
    \E c \in Contexts :
        /\ pc = "race"
        /\ op.at[c] = "read"
        /\ op' = [op EXCEPT !.at[c] = "write", !.local[c] = mem[op.reg]]
        /\ log' = Append(log, Event("read", op.reg, c, 0))
        /\ UNCHANGED <<mem, pc, checks, hz, timings, ret, query>>

\* write_volatile of a context: the value it read, modified
WriteAccess ==
    \E c \in Contexts :
        /\ pc = "race"
        /\ op.at[c] = "write"
        /\ mem' = [mem EXCEPT ![op.reg] = Modified(op.rmw[c], op.local[c])]
        /\ op' = [op EXCEPT !.at[c] = "done"]
        /\ log' = Append(log, Event("write", op.reg, c, 0))
        /\ UNCHANGED <<pc, checks, hz, timings, ret, query>>

NextRace == ReadAccess \/ WriteAccess

SpecRace == InitRace /\ [][NextRace]_vars

(***************************************************************************)
(* Properties of Timings::target, checked under SpecTimings                *)
(***************************************************************************)
Computed == pc = "computed"

\* C2: for every u32 target Timings::target returns Timings with
\* pll_arm_div_sel in 54..108, div_arm in 1..8, div_ahb in 1..5 and div_ipg
\* in 1..4.
TimingsInRange ==
    Computed =>
        /\ ~timings.panic
        /\ timings.t.pll_arm_div_sel \in 54 .. 108
        /\ timings.t.div_arm \in 1 .. 8
        /\ timings.t.div_ahb \in 1 .. 5
        /\ timings.t.div_ipg \in 1 .. 4

\* C3: Timings::target is total: for every u32 target no u32 operation
\* exceeds u32::MAX, no divisor is 0, and the function neither panics nor
\* wraps.
TargetIsTotal ==
    Computed => (~timings.overflow /\ ~timings.divzero /\ ~timings.panic)

\* C4: every target from 1,296,000,000 to u32::MAX gets multiplier 108,
\* div_arm = div_ahb = 1 and cpu_hz = 1,296,000,000.
LargeTargetsClampToMax ==
    (Computed /\ Le(U32(1296, 0), hz)) =>
        /\ ~timings.panic
        /\ timings.t.pll_arm_div_sel = 108
        /\ timings.t.div_arm = 1
        /\ timings.t.div_ahb = 1
        /\ timings.t.arm_hz = 1296000000

\* C9: target 0 and every target up to 16,200,000 Hz gets div_arm = 8,
\* div_ahb = 5, multiplier 54, cpu_hz = 16,200,000 and div_ipg = 1, with no
\* overflow, zero divisor or panic.
SmallTargetsClampToMin ==
    (Computed /\ Le(hz, U32(16, 200000))) =>
        /\ ~timings.panic
        /\ ~timings.overflow
        /\ ~timings.divzero
        /\ timings.t = [pll_arm_div_sel |-> 54, div_arm |-> 8, div_ahb |-> 5,
                        arm_hz |-> 16200000, div_ipg |-> 1]

\* target 0 has been resolved
SmallTargetsWitness ==
    /\ Computed
    /\ hz = U32(0, 0)
    /\ timings.t.div_arm = 8
    /\ timings.t.div_ahb = 5

\* C10: for every target in [16,200,000, 1,296,000,000] the multiplier is
\* the one nearest to target * div_arm * div_ahb / 12 MHz, halves rounded up
\* and no clamping needed; cpu_hz differs from the target by at most
\* 6,000,000 / (div_arm * div_ahb) + 1 Hz; 600,000,000 and 600,000,100 both
\* give cpu_hz = 600,000,000 and ipg_hz = 150,000,000.
RoundsToNearestStep ==
    (Computed /\ Le(U32(16, 200000), hz) /\ Le(hz, U32(1296, 0))) =>
        LET t == timings.t
            n == ToInt(hz) * t.div_arm * t.div_ahb
            err == IF t.arm_hz > ToInt(hz) THEN t.arm_hz - ToInt(hz)
                   ELSE ToInt(hz) - t.arm_hz
        IN /\ ~timings.panic
           /\ t.pll_arm_div_sel * 12000000 <= n + 6000000
           /\ n + 6000000 < (t.pll_arm_div_sel + 1) * 12000000
           /\ err <= (6000000 \div (t.div_arm * t.div_ahb)) + 1
           /\ (hz \in {U32(600, 0), U32(600, 100)} =>
                  (t.arm_hz = 600000000 /\ ipg_hz(t) = 150000000))

\* the target 100 Hz above 600 MHz has snapped to 600 MHz
RoundsToNearestWitness ==
    /\ Computed
    /\ hz = U32(600, 100)
    /\ timings.t.arm_hz = 600000000
    /\ timings.t.pll_arm_div_sel = 100

\* the defining formula 24,000,000 * pll / (2 * div_arm * div_ahb), one
\* truncating division of the exact numerator (24 * pll millions)
DefiningFormula(pll, div_arm, div_ahb) ==
    LET n == 24 * pll
        d == 2 * div_arm * div_ahb
    IN ((n \div d) * Mega) + (((n % d) * Mega) \div d)

\* the fields frequency() reads
ReadBack == RegTimings(mem["CCM_CACCR"], mem["CCM_CBCDR"], mem["CCM_ANALOG_PLL_ARM"])

\* C11: the cpu_hz that Timings::target returns equals
\* 24,000,000 * pll / (2 * div_arm * div_ahb) in integer arithmetic and
\* ipg_hz equals cpu_hz / div_ipg; frequency() gives the same formula's value
\* on the fields it reads from the registers.
FormulaConsistent ==
    /\ (Computed /\ ~timings.panic) =>
          /\ timings.t.arm_hz =
                DefiningFormula(timings.t.pll_arm_div_sel, timings.t.div_arm, timings.t.div_ahb)
          /\ ret.arm = timings.t.arm_hz
          /\ ret.ipg = timings.t.arm_hz \div timings.t.div_ipg
    /\ query # NoRet =>
          /\ query.arm =
                DefiningFormula(ReadBack.pll_arm_div_sel, ReadBack.div_arm, ReadBack.div_ahb)
          /\ query.ipg = query.arm \div ReadBack.div_ipg

\* a result whose two divisions both truncate: 55 * 12 MHz / 7 / 3
FormulaConsistentWitness ==
    /\ Computed
    /\ timings.t.pll_arm_div_sel = 55
    /\ timings.t.div_arm = 7
    /\ timings.t.div_ahb = 3
    /\ timings.t.arm_hz = 31428571
    /\ ret.ipg = 31428571

\* whether dividing cpu_hz by d gives at most 150 MHz
WithinIpgMax(cpu_hz, d) == cpu_hz <= 150000000 * d

\* C12: div_ipg = min(4, ceil(cpu_hz / 150,000,000)) of the achieved cpu_hz:
\* the smallest divider that brings the IPG clock to at most 150 MHz, or 4
\* when none below 4 does; cpu_hz = 150,000,000 gives 1 and 150,000,001
\* gives 2.
IpgDividerIsCeiling ==
    /\ (Computed /\ ~timings.panic) =>
          /\ timings.t.div_ipg \in 1 .. 4
          /\ timings.t.div_ipg < 4 => WithinIpgMax(timings.t.arm_hz, timings.t.div_ipg)
          /\ \A d \in 1 .. 3 :
                d < timings.t.div_ipg => ~WithinIpgMax(timings.t.arm_hz, d)
    /\ DivIpg(150000000) = 1
    /\ DivIpg(150000001) = 2

\* an achieved cpu_hz that is exactly twice 150 MHz has got divider 2
IpgDividerWitness ==
    /\ Computed
    /\ timings.t.arm_hz = 300000000
    /\ timings.t.div_ipg = 2
    /\ ret.ipg = 150000000

(***************************************************************************)
(* Properties of set_frequency, checked under Spec and FairSpec            *)
(***************************************************************************)
OscSwitch == Event("write", "CCM_CBCDR", "PERIPH_CLK_SEL", 1)

PllSwitch == Event("write", "CCM_CBCDR", "PERIPH_CLK_SEL", 0)

\* a write to the PLL control register or to one of the three dividers
Guarded(e) ==
    /\ e.ev = "write"
    /\ (e.reg = "CCM_ANALOG_PLL_ARM" \/ e.field \in {"ARM_PODF", "AHB_PODF", "IPG_PODF"})

Returned == pc = "idle" /\ ret # NoRet

HandshakeWaits == {"wait_clk2", "wait_osc", "wait_arm", "wait_ahb", "wait_pll"}

\* C1: in every execution of set_frequency each write to CCM_ANALOG_PLL_ARM
\* and to ARM_PODF, AHB_PODF, IPG_PODF comes after PERIPH_CLK_SEL was written
\* 1 and a handshake wait completed after that write, and before
\* PERIPH_CLK_SEL is written 0; PERIPH_CLK_SEL reads 1 whenever such a write
\* is the next statement.
WritesWhileOnOscillator ==
    /\ \A i \in 1 .. Len(log) :
          Guarded(log[i]) =>
              /\ \E j \in 1 .. i, k \in 1 .. i :
                    j < k /\ log[j] = OscSwitch /\ log[k].ev = "handshake"
              /\ \A m \in 1 .. i : log[m] # PllSwitch
    /\ pc \in {"powerdown", "div_sel", "enable", "arm_podf", "ahb_podf", "ipg_podf"} =>
          FieldRead(PERIPH_CLK_SEL, mem["CCM_CBCDR"]) = 1

\* the PLL and all three dividers have been written and the switch back
\* to the PLL has been made
WritesWhileOnOscillatorWitness ==
    /\ pc = "wait_pll"
    /\ \E i \in 1 .. Len(log) : log[i].ev = "write" /\ log[i].reg = "CCM_ANALOG_PLL_ARM"
    /\ \E i \in 1 .. Len(log) : log[i].ev = "write" /\ log[i].field = "IPG_PODF"
    /\ log[Len(log)] = PllSwitch

\* C5: after set_frequency has returned, frequency() returns the pair that
\* set_frequency returned.
FrequencyRoundTrip ==
    (Returned /\ query # NoRet) => query = ret

\* frequency() has been called after set_frequency(600 MHz) returned
FrequencyRoundTripWitness ==
    /\ Returned
    /\ hz = U32(600, 0)
    /\ query = [arm |-> 600000000, ipg |-> 150000000]

\* C6: when set_frequency has returned, PERIPH_CLK_SEL = 0 and
\* PRE_PERIPH_CLK_SEL = 3, the last thing the call did was a handshake wait
\* that read CCM_CDHIPR as 0, and the lock bit was seen set, whatever the
\* registers held before the call.
ReturnsOnPll ==
    Returned =>
        /\ FieldRead(PERIPH_CLK_SEL, mem["CCM_CBCDR"]) = 0
        /\ FieldRead(PRE_PERIPH_CLK_SEL, mem["CCM_CBCMR"]) = 3
        /\ Len(log) > 0
        /\ log[Len(log)].ev = "handshake"
        /\ \E i \in 1 .. Len(log) : log[i].ev = "lock"

\* a call has returned that started with every bit of CCM_CBCMR set: only
\* the PERIPH_CLK2_SEL field has changed
ReturnsOnPllWitness ==
    /\ Returned
    /\ mem["CCM_CBCMR"] = (BitPos \ PERIPH_CLK2_SEL.mask) \cup Shl(Bits(1), PERIPH_CLK2_SEL.offset)
    /\ FieldRead(PERIPH_CLK_SEL, mem["CCM_CBCDR"]) = 0

\* C7: with hardware that acknowledges every handshake and locks the PLL,
\* every call of set_frequency returns.
SetFrequencyReturns == (pc = "clk2_podf") ~> (pc = "idle")

\* what holds instead: a call returns or panics in Timings::target
ReturnsOrPanics == (pc = "clk2_podf") ~> (pc \in {"idle", "panicked"})

\* a wait whose condition the hardware has not yet met
Stuck ==
    \/ pc \in HandshakeWaits /\ mem["CCM_CDHIPR"] # {}
    \/ pc = "wait_lock" /\ mem["CCM_ANALOG_PLL_ARM"] \cap LOCK = {}

\* C8: while the handshake register reads nonzero at a handshake wait, or
\* the lock bit reads 0 at the lock wait, the call does not move on, returns
\* nothing and writes no register.
FailStop ==
    [][Stuck =>
          /\ pc' = pc
          /\ log' = log
          /\ ret' = ret
          /\ timings' = timings
          /\ \A r \in {"CCM_CACCR", "CCM_CBCDR", "CCM_CBCMR"} : mem'[r] = mem[r]
          /\ mem'["CCM_ANALOG_PLL_ARM"] \ LOCK = mem["CCM_ANALOG_PLL_ARM"] \ LOCK]_vars

\* the call is held at the wait after the ARM_PODF write by busy bits
\* other than PERIPH_CLK_SEL_BUSY
FailStopWitness ==
    /\ pc = "wait_arm"
    /\ mem["CCM_CDHIPR"] = {1, 16}

\* a step of frequency() that returns something new
QueryStep == pc = "idle" /\ pc' = "idle" /\ query' # query

\* C13: frequency() writes no register: the register contents are the same
\* after the call; and once it has returned a pair, calling it again with
\* no write in between returns that pair.
FrequencyReadOnly ==
    [][/\ QueryStep => mem' = mem
       /\ (pc = "idle" /\ pc' = "idle" /\ query # NoRet) => query' = query]_vars

\* frequency() has returned before any set_frequency, on registers that
\* hold a multiplier
FrequencyReadOnlyWitness ==
    /\ pc = "idle"
    /\ ret = NoRet
    /\ log = <<>>
    /\ query # NoRet
    /\ query.arm = DefiningFormula(66, ReadBack.div_arm, ReadBack.div_ahb)

(***************************************************************************)
(* Properties of the peripheral clock operations, checked under SpecPeriph *)
(***************************************************************************)
\* the 2-bit field of gate g, read bit by bit
GateField(register, g) ==
    (IF 2 * g \in register THEN 1 ELSE 0) + (IF (2 * g) + 1 \in register THEN 2 ELSE 0)

Listed(gates, g) == \E i \in 1 .. Len(gates) : gates[i] = g

\* C14: after set_clock_gate_ the field of every listed gate is value & 3
\* and the field of every other gate is what it was; get_clock_gate_ then
\* returns that field; setting the same gates to the same value again
\* leaves the register as it is.
GateSetFrame ==
    /\ pc \in {"gate_set", "gate_got"} =>
          /\ \A g \in 0 .. 15 :
                GateField(mem["CCGR"], g) =
                    IF Listed(op.gates, g) THEN op.value % 4
                    ELSE GateField(op.register, g)
          /\ set_clock_gate_(mem["CCGR"], op.gates, op.value) = mem["CCGR"]
    /\ pc = "gate_got" => op.result = GateField(mem["CCGR"], op.gate)

\* gates 3 and 7 of an all-ones register were set to 254: both now read 2,
\* gate 4 still reads 3
GateSetFrameWitness ==
    /\ pc = "gate_got"
    /\ op.register = BitPos
    /\ op.gates = <<3, 7>>
    /\ op.value = 254
    /\ op.gate = 7
    /\ op.result = 2
    /\ GateField(mem["CCGR"], 4) = 3

\* C15: for an identifier that Instance::is_valid rejects set_clock_gate
\* reads and writes no register and leaves the state as it was, and
\* get_clock_gate returns None; for an identifier it accepts set_clock_gate
\* writes the gate and get_clock_gate returns Some of it.
InvalidInstanceIgnored ==
    pc \in {"clock_gate_set", "clock_gate_got"} =>
        IF op.inst \in op.valid
        THEN /\ \A i \in 1 .. Len(location(op.inst).gates) :
                   GateField(mem[Ccgr(location(op.inst).offset)], location(op.inst).gates[i])
                       = op.gate
             /\ \E i \in 1 .. Len(log) : log[i].ev = "write"
             /\ pc = "clock_gate_got" => op.result = Some(op.gate)
        ELSE /\ mem = op.before
             /\ log = <<>>
             /\ pc = "clock_gate_got" => op.result = None

\* I2C3 was set to On through an Instance that accepts only I2C1 and I2C2:
\* the gate, OnlyRun before, is still OnlyRun and the getter gave None
InvalidInstanceWitness ==
    /\ pc = "clock_gate_got"
    /\ op.inst = "I2C3"
    /\ op.valid = {"I2C1", "I2C2"}
    /\ op.gate = On
    /\ GateField(mem["CCGR2"], 5) = OnlyRun
    /\ op.result = None

\* clamp(d, lo, hi) of a u32 d
Clamp(d, lo, hi) ==
    IF Lt(d, U32(0, lo)) THEN lo ELSE IF Lt(U32(0, hi), d) THEN hi ELSE ToInt(d)

\* the divider field of a root register, read bit by bit; SPI's field is
\* 4 bits wide on imxrt1010 and 3 bits wide elsewhere
RootField(root, width) ==
    LET reg == RootRegister(root, FALSE)
    IN Num({b \in 0 .. width - 1 : reg.divider.offset + b \in mem[reg.address]})

SpiWidth == IF op.imxrt1010 THEN 4 ELSE 3

\* the claim's limits for a root: 64 for I2C, UART and the periodic clock,
\* and for SPI `spi`
RootClaim(spi) ==
    /\ (pc \in {"root_configured", "root_queried"} /\ op.root \in {"i2c", "uart"}) =>
          /\ RootField(op.root, 6) = Clamp(op.divider, 1, 64) - 1
          /\ pc = "root_queried" => op.result = 24000000 \div Clamp(op.divider, 1, 64)
    /\ (pc \in {"root_configured", "root_queried"} /\ op.root = "perclock"
           /\ op.selection = "Oscillator") =>
          /\ RootField(op.root, 6) = Clamp(op.divider, 1, 64) - 1
          /\ pc = "root_queried" => op.result = 24000000 \div Clamp(op.divider, 1, 64)
    /\ (pc \in {"root_configured", "root_queried"} /\ op.root = "spi") =>
          /\ RootField(op.root, SpiWidth) = Clamp(op.divider, 1, spi) - 1
          /\ pc = "root_queried" => op.result = 528000000 \div Clamp(op.divider, 1, spi)

\* C16 as stated: configure programs clamp(d, 1, 64) - 1 for the I2C, UART
\* and oscillator-selected periodic roots and frequency is then
\* 24,000,000 / clamp(d, 1, 64); for the SPI root the range is [1, 8] and
\* the frequency 528,000,000 / clamp(d, 1, 8).
RootDividerClamped == RootClaim(8)

\* C16 amended: as stated, but for the SPI root the range is [1, 16] in a
\* build for imxrt1010 and [1, 8] otherwise.
RootDividerClampedPerChip == RootClaim(IF op.imxrt1010 THEN 16 ELSE 8)

\* SPI configured with divider 9 in a build for imxrt1010: the field holds
\* 8 and the frequency is 528 MHz / 9
RootDividerWitness ==
    /\ pc = "root_queried"
    /\ op.root = "spi"
    /\ op.imxrt1010
    /\ op.divider = U32(0, 9)
    /\ op.before["CCM_CBCMR"] = BitPos
    /\ op.result = 58666666

\* the fields of all gates of an instance hold `value` in memory m
GatesHold(m, inst, value) ==
    \A i \in 1 .. Len(location(inst).gates) :
        GateField(m[Ccgr(location(inst).offset)], location(inst).gates[i]) = value

\* the fields of all gates of an instance are the same in m and n
GatesSame(m, n, inst) ==
    \A i \in 1 .. Len(location(inst).gates) :
        GateField(m[Ccgr(location(inst).offset)], location(inst).gates[i])
            = GateField(n[Ccgr(location(inst).offset)], location(inst).gates[i])

Stored(f, value, b) == (b \in mem["mem"]) <=> (b - f.offset \in value)

Kept(b) == (b \in mem["mem"]) <=> (b \in op.before)

\* the argument truncated to the field's width
Truncated(f, value) == Num({i \in value : i + f.offset \in f.mask})

\* C18: Field::modify and Register::set store the arguments, truncated to
\* the field width, in their own fields and leave every other bit of the
\* register as it was; Field::read and Register::divider then return the
\* truncated value; set(3, 1) on 0xFFFF_FFFF with the 6-bit field at bit 19
\* and the 1-bit field at bit 18 gives 0xFE1F_FFFF and divider() = 3.
AccessorFrame ==
    /\ pc \in {"field_modified", "field_read"} =>
          \A b \in BitPos :
              IF b \in op.field.mask THEN Stored(op.field, op.value, b) ELSE Kept(b)
    /\ pc = "field_read" => op.result = Truncated(op.field, op.value)
    /\ pc \in {"register_set", "register_read"} =>
          \A b \in BitPos :
              CASE b \in op.reg.divider.mask -> Stored(op.reg.divider, op.divider, b)
                [] b \in op.reg.select.mask -> Stored(op.reg.select, op.select, b)
                [] OTHER -> Kept(b)
    /\ pc = "register_read" => op.result = Truncated(op.reg.divider, op.divider)
    /\ (pc = "register_read" /\ op.reg = CSCDR2 /\ op.before = BitPos
           /\ op.divider = Bits(3) /\ op.select = Bits(1)) =>
          /\ mem["mem"] = BitPos \ {21, 22, 23, 24}
          /\ op.result = 3

\* set(u32::MAX, 3) on the I2C root register holding 0xFFFF_FFFF, then
\* divider(): the field holds 63 and nothing outside the two fields changed
AccessorFrameWitness ==
    /\ pc = "register_read"
    /\ op.reg = CSCDR2
    /\ op.before = BitPos
    /\ op.divider = BitPos
    /\ op.select = Bits(3)
    /\ op.result = 63
    /\ mem["mem"] = BitPos

(***************************************************************************)
(* Ordering inside set_frequency, checked under Spec                       *)
(***************************************************************************)
MuxSelectors == {"PERIPH_CLK2_SEL", "PERIPH_CLK_SEL", "PRE_PERIPH_CLK_SEL"}

MuxWrite(e) == e.ev = "write" /\ e.field \in MuxSelectors

\* the log's last event is a completed handshake wait only while the
\* handshake register still reads 0
HandshakeReadZero ==
    (log # <<>> /\ log[Len(log)].ev = "handshake") => mem["CCM_CDHIPR"] = {}

\* C19 as stated: in set_frequency the next access after a write to
\* PERIPH_CLK2_SEL, PERIPH_CLK_SEL or PRE_PERIPH_CLK_SEL is a handshake wait
\* that has read CCM_CDHIPR as 0; no other write comes between.
MuxWriteThenHandshake ==
    /\ \A i \in 1 .. Len(log) :
          MuxWrite(log[i]) =>
              IF i < Len(log) THEN log[i + 1].ev = "handshake" ELSE pc \in HandshakeWaits
    /\ HandshakeReadZero

\* C19 amended: the same for the writes to PERIPH_CLK2_SEL and
\* PERIPH_CLK_SEL; the write to PRE_PERIPH_CLK_SEL is followed at once by the
\* write of PERIPH_CLK_SEL = 0, and the handshake wait follows that one.
MuxWriteThenHandshakeButPre ==
    /\ \A i \in 1 .. Len(log) :
          MuxWrite(log[i]) =>
              IF log[i].field = "PRE_PERIPH_CLK_SEL"
              THEN IF i < Len(log) THEN log[i + 1] = PllSwitch ELSE pc = "to_pll"
              ELSE IF i < Len(log) THEN log[i + 1].ev = "handshake"
                   ELSE pc \in HandshakeWaits
    /\ HandshakeReadZero

\* the call is about to return: PRE_PERIPH_CLK_SEL, then PERIPH_CLK_SEL = 0,
\* then the completed handshake wait are the last three events
MuxWriteWitness ==
    /\ pc = "return"
    /\ Len(log) >= 3
    /\ log[Len(log) - 2] = Event("write", "CCM_CBCMR", "PRE_PERIPH_CLK_SEL", 3)
    /\ log[Len(log) - 1] = PllSwitch
    /\ log[Len(log)].ev = "handshake"

\* the writes to CCM_ANALOG_PLL_ARM in the log, in order
RECURSIVE PllWrites(_)
PllWrites(l) ==
    IF l = <<>> THEN <<>>
    ELSE IF l[1].ev = "write" /\ l[1].reg = "CCM_ANALOG_PLL_ARM"
         THEN <<l[1].field>> \o PllWrites(Tail(l))
         ELSE PllWrites(Tail(l))

IsPrefix(p, q) == Len(p) <= Len(q) /\ \A i \in 1 .. Len(p) : p[i] = q[i]

\* the PLL runs: enabled and not powered down
PllRuns(v) == ENABLE.mask \subseteq v /\ POWERDOWN.mask \cap v = {}

\* the order of the accesses and what each PLL write leaves in the register
RestartOrder ==
    /\ IsPrefix(PllWrites(log), <<"POWERDOWN", "DIV_SEL", "ENABLE">>)
    /\ pc = "div_sel" => mem["CCM_ANALOG_PLL_ARM"] \ LOCK = POWERDOWN.mask
    /\ pc = "enable" =>
          /\ POWERDOWN.mask \cap mem["CCM_ANALOG_PLL_ARM"] = {}
          /\ ENABLE.mask \cap mem["CCM_ANALOG_PLL_ARM"] = {}
          /\ FieldRead(DIV_SEL, mem["CCM_ANALOG_PLL_ARM"]) = timings.t.pll_arm_div_sel
    /\ pc = "wait_lock" =>
          /\ PllRuns(mem["CCM_ANALOG_PLL_ARM"])
          /\ FieldRead(DIV_SEL, mem["CCM_ANALOG_PLL_ARM"]) = timings.t.pll_arm_div_sel
    /\ \A i \in 1 .. Len(log) :
          (log[i].ev = "write" /\ log[i].field \in {"ARM_PODF", "AHB_PODF", "IPG_PODF"}) =>
              \E e \in 1 .. i, k \in 1 .. i :
                  /\ e < k
                  /\ log[e] = Event("write", "CCM_ANALOG_PLL_ARM", "ENABLE", 1)
                  /\ log[k] = Event("lock", "CCM_ANALOG_PLL_ARM", "LOCK", 1)

\* a step that changes the multiplier field leaves the PLL not running, and
\* a step of a running PLL that stays running leaves the field alone
MultiplierStep ==
    FieldRead(DIV_SEL, mem'["CCM_ANALOG_PLL_ARM"]) # FieldRead(DIV_SEL, mem["CCM_ANALOG_PLL_ARM"])
        => ~PllRuns(mem'["CCM_ANALOG_PLL_ARM"])

\* C20: within set_frequency the PLL register is written with POWERDOWN = 1,
\* then with the new DIV_SEL and POWERDOWN cleared, then ENABLE is set; a
\* divider ARM_PODF, AHB_PODF or IPG_PODF is written only after the lock bit
\* was read as 1 following that; and no write changes the multiplier field
\* of a PLL it leaves enabled and not powered down.
PllRestartOrdering == [] RestartOrder /\ [][MultiplierStep]_vars

\* the first divider has been written after the lock, over a PLL register
\* that held another multiplier before the call
PllRestartWitness ==
    /\ pc = "wait_arm"
    /\ log[Len(log)].field = "ARM_PODF"
    /\ PllWrites(log) = <<"POWERDOWN", "DIV_SEL", "ENABLE">>
    /\ PllRuns(mem["CCM_ANALOG_PLL_ARM"])
    /\ FieldRead(DIV_SEL, mem["CCM_ANALOG_PLL_ARM"]) = 54

\* the divider writes in the log, in order
RECURSIVE DividerWrites(_)
DividerWrites(l) ==
    IF l = <<>> THEN <<>>
    ELSE IF l[1].ev = "write" /\ l[1].field \in {"ARM_PODF", "AHB_PODF", "IPG_PODF"}
         THEN <<l[1]>> \o DividerWrites(Tail(l))
         ELSE DividerWrites(Tail(l))

\* what set_timings is to write for the timings computed
CommitOrder ==
    <<Event("write", "CCM_CACCR", "ARM_PODF", timings.t.div_arm - 1),
      Event("write", "CCM_CBCDR", "AHB_PODF", timings.t.div_ahb - 1),
      Event("write", "CCM_CBCDR", "IPG_PODF", timings.t.div_ipg - 1)>>

\* C21: set_timings writes ARM_PODF = div_arm - 1, waits for the handshake,
\* writes AHB_PODF = div_ahb - 1, waits for the handshake, then writes
\* IPG_PODF = div_ipg - 1 and does not wait; no handshake is pending when
\* AHB_PODF or IPG_PODF is written.
DividerCommitOrder ==
    /\ DividerWrites(log) # <<>> => IsPrefix(DividerWrites(log), CommitOrder)
    /\ \A i \in 1 .. Len(log) - 1 :
          /\ (log[i].ev = "write" /\ log[i].field \in {"ARM_PODF", "AHB_PODF"}) =>
                log[i + 1].ev = "handshake"
          /\ (log[i].ev = "write" /\ log[i].field = "IPG_PODF") =>
                log[i + 1].ev = "write"
    /\ pc \in {"ahb_podf", "ipg_podf"} => mem["CCM_CDHIPR"] = {}
    /\ (log # <<>> /\ log[Len(log)].ev = "write"
           /\ log[Len(log)].field \in {"ARM_PODF", "AHB_PODF"}) =>
          pc \in {"wait_arm", "wait_ahb"}
    /\ (log # <<>> /\ log[Len(log)].ev = "write" /\ log[Len(log)].field = "IPG_PODF") =>
          pc \in {"result", "pre_periph"}

\* IPG_PODF = 3 has been written after both waits and the function has gone
\* on while the hardware still shows a handshake pending
DividerCommitWitness ==
    /\ pc = "pre_periph"
    /\ Len(DividerWrites(log)) = 3
    /\ log[Len(log)] = Event("write", "CCM_CBCDR", "IPG_PODF", 3)
    /\ log[Len(log) - 1].ev = "handshake"
    /\ mem["CCM_CDHIPR"] # {}

\* the four routing fields of a memory
Routing(m) ==
    [PERIPH_CLK_SEL |-> FieldRead(PERIPH_CLK_SEL, m["CCM_CBCDR"]),
     PRE_PERIPH_CLK_SEL |-> FieldRead(PRE_PERIPH_CLK_SEL, m["CCM_CBCMR"]),
     PERIPH_CLK2_SEL |-> FieldRead(PERIPH_CLK2_SEL, m["CCM_CBCMR"]),
     PERIPH_CLK2_PODF |-> FieldRead(PERIPH_CLK2_PODF, m["CCM_CBCDR"])]

\* set_frequency has returned from a call made with PERIPH_CLK_SEL = 0
ReturnedFromPll == Returned /\ Routing(op.before).PERIPH_CLK_SEL = 0

\* C22 as stated: after a call of set_frequency made with the bus clock on
\* the PLL path (PERIPH_CLK_SEL = 0), PERIPH_CLK_SEL, PRE_PERIPH_CLK_SEL,
\* PERIPH_CLK2_SEL and PERIPH_CLK2_PODF have the values they had before.
RoutingRestored == ReturnedFromPll => Routing(mem) = Routing(op.before)

\* C22 amended: after such a call PERIPH_CLK_SEL has the value it had
\* before, 0; the other three are left at the values the call wrote:
\* PRE_PERIPH_CLK_SEL = 3, PERIPH_CLK2_SEL = 1 and PERIPH_CLK2_PODF = 0.
RoutingLeftOnPll1 ==
    ReturnedFromPll =>
        Routing(mem) = [PERIPH_CLK_SEL |-> Routing(op.before).PERIPH_CLK_SEL,
                        PRE_PERIPH_CLK_SEL |-> 3,
                        PERIPH_CLK2_SEL |-> 1,
                        PERIPH_CLK2_PODF |-> 0]

\* a call made on the pre-peripheral source 0 with the auxiliary path on
\* source 3 divided by 8 has returned
RoutingWitness ==
    /\ ReturnedFromPll
    /\ Routing(op.before).PERIPH_CLK2_PODF = 7
    /\ \E m \in {op.before} :
          /\ Routing(m).PRE_PERIPH_CLK_SEL = 0
          /\ Routing(m).PERIPH_CLK2_SEL = 0
    /\ Routing(mem).PRE_PERIPH_CLK_SEL = 3

(***************************************************************************)
(* The divider search of Timings::target, checked under SpecTimings        *)
(***************************************************************************)
\* the place of a pair in the order (1,1), (2,1), ..., (8,1), (1,2), ..., (8,5)
Rank(c) == ((c.div_ahb - 1) * 8) + c.div_arm

Pairs == {[div_arm |-> a, div_ahb |-> b] : a \in 1 .. 8, b \in 1 .. 5}

\* target * div_arm * div_ahb >= 648,000,000, in exact arithmetic
Reaches(target, c) == ~Lt(MulExact(MulExact(target, c.div_arm), c.div_ahb), U32(648, 0))

\* the search result d is the first pair, in visiting order, to reach the
\* threshold for the target, or (8,5) if none does
FirstToReach(target, d) ==
    LET reaching == {c \in Pairs : Reaches(target, c)}
        found == [div_arm |-> d.div_arm, div_ahb |-> d.div_ahb]
    IN /\ ~d.ovf
       /\ Rank(found) - 1 <= 39
       /\ reaching # {} => found \in reaching /\ \A c \in reaching : Rank(found) <= Rank(c)
       /\ reaching = {} => found = [div_arm |-> 8, div_ahb |-> 5] /\ ~timings.panic
       /\ ~timings.panic =>
             timings.t.div_arm = found.div_arm /\ timings.t.div_ahb = found.div_ahb

\* C23: the loop of Timings::target visits (1,1), (2,1), ..., (8,1), (1,2),
\* ..., (8,5) in this order and stops at the first pair with
\* target * div_arm * div_ahb >= 648,000,000; if no pair reaches that it ends
\* at (8,5) without error; it takes at most 39 steps and no product it
\* evaluates exceeds u32::MAX.
SearchFindsFirst ==
    /\ Len(Candidates) = 40
    /\ \A i \in 1 .. Len(Candidates) : Rank(Candidates[i]) = i
    /\ Computed => \A d \in {SearchDividers(hz, checks)} : FirstToReach(hz, d)

\* 54 MHz: (8,1) gives 432 MHz, (5,2) 540 MHz, and (6,2) is the first pair
\* to reach 648 MHz, after 13 steps
SearchWitness ==
    /\ Computed
    /\ hz = U32(54, 0)
    /\ ~Reaches(hz, [div_arm |-> 8, div_ahb |-> 1])
    /\ ~timings.panic
    /\ timings.t.div_arm = 6
    /\ timings.t.div_ahb = 2

(***************************************************************************)
(* Two contexts, checked under SpecRace                                    *)
(***************************************************************************)
\* the bits a call is to change
Target_(rmw) ==
    CASE rmw.fn = "set_clock_gate_" ->
            UNION {{2 * rmw.gates[i], (2 * rmw.gates[i]) + 1} : i \in 1 .. Len(rmw.gates)}
      [] rmw.fn = "Register::set" -> rmw.reg.divider.mask \cup rmw.reg.select.mask
      [] rmw.fn = "Field::modify" -> rmw.field.mask

\* the values a call is to leave in its bits
Wanted(rmw) ==
    CASE rmw.fn = "set_clock_gate_" ->
            UNION {Shl(Bits(rmw.value), 2 * rmw.gates[i]) : i \in 1 .. Len(rmw.gates)}
      [] rmw.fn = "Register::set" ->
            Shl(Bits(rmw.divider), rmw.reg.divider.offset)
                \cup Shl(Bits(rmw.select), rmw.reg.select.offset)
      [] rmw.fn = "Field::modify" -> Shl(Bits(rmw.value), rmw.field.offset)

\* the register holds the update of context c
TookEffect(c) == mem[op.reg] \cap Target_(op.rmw[c]) = Wanted(op.rmw[c])

\* the bits of context c hold what they held before both calls
Stale(c) == mem[op.reg] \cap Target_(op.rmw[c]) = op.before \cap Target_(op.rmw[c])

BothDone == \A c \in Contexts : op.at[c] = "done"

\* context c read the register before the other context wrote it and wrote
\* it after
Overtaken(c, d) ==
    \E i \in 1 .. Len(log), j \in 1 .. Len(log), k \in 1 .. Len(log) :
        /\ i < j /\ j < k
        /\ log[i].ev = "read" /\ log[i].field = c
        /\ log[j].ev = "write" /\ log[j].field = d
        /\ log[k].ev = "write" /\ log[k].field = c

\* C24: when each read-modify-write runs from its read to its write without
\* the other context writing between, both updates are in the register;
\* when a context reads before the other's write and writes after it, the
\* other's completed update is overwritten by the value read before.
LostUpdateOnlyWhenInterleaved ==
    /\ \A c \in Contexts : (op.at[c] = "done" /\ log[Len(log)].field = c) => TookEffect(c)
    /\ BothDone =>
          \A c \in Contexts :
              \A d \in Contexts \ {c} :
                  IF Overtaken(c, d) THEN Stale(d) ELSE TookEffect(d)

\* SPI configure has stored divider 8 and selector 2 in CCM_CBCMR, and the
\* write of PRE_PERIPH_CLK_SEL = 3, made on a value read before, has put
\* the old divider and selector back
LostUpdateWitness ==
    /\ BothDone
    /\ op.reg = "CCM_CBCMR"
    /\ op.before = {}
    /\ op.rmw["a"].divider = 7
    /\ Overtaken("b", "a")
    /\ TookEffect("b")
    /\ ~TookEffect("a")
    /\ FieldRead(LPSPI_PODF(FALSE), mem["CCM_CBCMR"]) = 0

(***************************************************************************)
(* The IPG limit and repeated requests, checked under SpecTimings          *)
(***************************************************************************)
\* C25: for every u32 target the IPG frequency arm_hz / div_ipg that
\* Timings::target describes, and that set_frequency returns, is at most
\* 150,000,000.
IpgWithinMax ==
    (Computed /\ ~timings.panic) =>
        /\ ipg_hz(timings.t) <= 150000000
        /\ ret.ipg <= 150000000

\* C26: for every u32 target t, Timings::target of the arm_hz that
\* Timings::target(t) describes returns the same multiplier, dividers, arm_hz
\* and div_ipg.
TargetIdempotent ==
    pc = "recomputed" => (~op.again.panic /\ op.again.t = timings.t)

(***************************************************************************)
(* Shared registers, checked under SpecShared                              *)
(***************************************************************************)
\* the bits set_frequency may change in each register
ArmBits(r) ==
    CASE r = "CCM_CBCDR" ->
            {27, 28, 29} \cup {25} \cup {10, 11, 12} \cup {8, 9}
      [] r = "CCM_CBCMR" -> {12, 13} \cup {18, 19}
      [] r = "CCM_CACCR" -> {0, 1, 2}
      [] r \in {"CCM_ANALOG_PLL_ARM", "CCM_CDHIPR"} -> BitPos
      [] OTHER -> {}

\* the bits SPI configure may change: LPSPI_SEL and LPSPI_PODF of the build
SpiBits(r) ==
    IF r = "CCM_CBCMR"
    THEN {4, 5} \cup (IF op.imxrt1010 THEN {26, 27, 28, 29} ELSE {26, 27, 28})
    ELSE {}

\* the hardware's own bits
HwBits(r) ==
    CASE r = "CCM_CDHIPR" -> BitPos
      [] r = "CCM_ANALOG_PLL_ARM" -> LOCK
      [] OTHER -> {}

SameOutside(r, bits) == mem[r] \ bits = op.before[r] \ bits

\* C27: from its call on set_frequency changes no bit of CCM_CBCDR,
\* CCM_CBCMR and CCM_CACCR outside its seven fields, so the SPI fields of
\* CCM_CBCMR keep their values, and it writes to no clock gate or root
\* register; SPI configure changes no bit outside LPSPI_PODF and LPSPI_SEL,
\* so the mux fields of CCM_CBCMR keep theirs; in any sequence of the two.
SharedRegistersFrame ==
    /\ op.name = "set_frequency" =>
          /\ \A r \in DOMAIN mem : SameOutside(r, ArmBits(r))
          /\ \A i \in 1 .. Len(log) :
                log[i].reg \in {"CCM_CBCDR", "CCM_CBCMR", "CCM_CACCR",
                                "CCM_ANALOG_PLL_ARM", "CCM_CDHIPR"}
    /\ op.name = "configure" =>
          \A r \in DOMAIN mem : SameOutside(r, SpiBits(r) \cup HwBits(r))

\* set_frequency has returned after an SPI configure that stored divider 6
\* and selector 2 over a cleared register: both are still there, next to
\* the mux fields set_frequency wrote
SharedRegistersWitness ==
    /\ Returned
    /\ op.name = "set_frequency"
    /\ mem["CCM_CBCMR"] = {26, 28} \cup {5} \cup {12} \cup {18, 19}
    /\ mem["CCGR1"] = BitPos

(***************************************************************************)
(* The PLL register after the restart, checked under Spec                  *)
(***************************************************************************)
\* restart_pll_arm has returned in the call in progress or just finished
Restarted ==
    \/ pc \in {"arm_podf", "wait_arm", "ahb_podf", "wait_ahb", "ipg_podf", "result",
               "pre_periph", "to_pll", "wait_pll", "return"}
    \/ Returned

\* C28: once restart_pll_arm(div_sel) has returned, bits 0..30 of
\* CCM_ANALOG_PLL_ARM are exactly DIV_SEL = div_sel & 0x7F and ENABLE = 1:
\* POWERDOWN and every other bit set before the call are 0; the lock bit
\* reads 1.
PllRegisterAfterRestart ==
    Restarted =>
        /\ mem["CCM_ANALOG_PLL_ARM"] \ LOCK
              = {b \in 0 .. 6 : (timings.t.pll_arm_div_sel \div (2 ^ b)) % 2 = 1} \cup {13}
        /\ 12 \notin mem["CCM_ANALOG_PLL_ARM"]
        /\ 31 \in mem["CCM_ANALOG_PLL_ARM"]

\* the restart has returned with multiplier 100 over a register that had
\* every bit set before the call, bypass and POWERDOWN included
PllRegisterWitness ==
    /\ pc = "arm_podf"
    /\ op.before["CCM_ANALOG_PLL_ARM"] = BitPos
    /\ mem["CCM_ANALOG_PLL_ARM"] = {2, 5, 6} \cup {13} \cup {31}

(***************************************************************************)
(* Sequences of the public gate setters and getters and of the root        *)
(* configuration methods: lib.rs 332-356, 565-589, i2c.rs 36-45,           *)
(* spi.rs 38-47, uart.rs 36-50, perclock.rs 144-157                        *)
(*                                                                         *)
(* A getter that reaches unreachable!() ends the program.                  *)
(***************************************************************************)
\* the instances the setters and getters are called on
GateInsts == {"I2C1", "GPT1"}

\* clock gate register contents at the start: all Off, all On, mixed, and
\* the reserved pattern 0b10 in every field
StartGateContents == {{}, BitPos, Bits(1019281359), {i \in BitPos : i % 2 = 1}}

InitGates ==
    /\ \E content \in StartGateContents :
          /\ mem = [r \in PeriphRegs |-> content]
          /\ op = [name |-> "none", before |-> [r \in PeriphRegs |-> content]]
    /\ pc = "idle"
    /\ checks \in {FALSE}
    /\ hz = U32(0, 0)
    /\ timings = NoOutcome
    /\ ret = NoRet
    /\ query = NoRet
    /\ log = <<>>

\* set_clock_gate::<I>(inst, gate), I::is_valid accepting inst or not
AnySetClockGate ==
    /\ pc = "idle"
    /\ \E inst \in GateInsts, gate \in ClockGates, valid \in SUBSET GateInsts :
          /\ mem' = set_clock_gate(mem, <<>>, valid, inst, gate).mem
          /\ op' = [name |-> "set_clock_gate", before |-> op.before, inst |-> inst,
                    gate |-> gate]
    /\ UNCHANGED <<pc, checks, hz, timings, ret, query, log>>

\* get_clock_gate::<I>(inst)
AnyGetClockGate ==
    /\ pc = "idle"
    /\ \E inst \in GateInsts, valid \in SUBSET GateInsts :
          \E r \in {get_clock_gate(mem, valid, inst)} :
              /\ op' = [name |-> "get_clock_gate", before |-> op.before, inst |-> inst,
                        result |-> r]
              /\ pc' = IF r.some /\ r.value = Unreachable THEN "panicked" ELSE "idle"
    /\ UNCHANGED <<mem, checks, hz, timings, ret, query, log>>

\* configure_divider, enable_divider or enable_selection_divider of a root,
\* I::is_valid accepting all instances of the class or none
AnyConfigureDivider ==
    /\ pc = "idle"
    /\ \E root \in Roots, valid \in {{}, Members(I2C \o SPI \o UART \o GPT \o PIT)} :
          /\ mem' = configure_divider(mem, <<>>, root, valid, U32(0, 3), "Oscillator",
                                      FALSE).mem
          /\ op' = [name |-> "configure_divider", before |-> op.before, root |-> root]
    /\ UNCHANGED <<pc, checks, hz, timings, ret, query, log>>

NextGates == AnySetClockGate \/ AnyGetClockGate \/ AnyConfigureDivider

SpecGates == InitGates /\ [][NextGates]_vars

\* every 2-bit field of every clock gate register holds 0b00, 0b01 or 0b11
AllFieldsValid(m) ==
    \A r \in CcgrRegs, g \in 0 .. 15 : get_clock_gate_(m[r], g) \in {0, 1, 3}

\* C29: if every gate field held 0b00, 0b01 or 0b11 at the start, then
\* after any sequence of set_clock_gate (with Off, OnlyRun or On),
\* get_clock_gate and root configuration calls every gate field still does
\* and no getter has reached unreachable!(); a getter reaches it only on a
\* field that holds 0b10, and from_u8 reaches it for exactly the u8 values
\* whose two low bits are 0b10.
GateEncoding ==
    /\ AllFieldsValid(op.before) => AllFieldsValid(mem) /\ pc # "panicked"
    /\ pc = "panicked" =>
          /\ op.name = "get_clock_gate"
          /\ gate_get(mem, location(op.inst)) = 2
    /\ \A raw \in 0 .. 255 : (from_u8(raw) = Unreachable) <=> (raw % 4 = 2)

\* from all gates On, a root was configured, a gate was set to OnlyRun and
\* the getter returned it
GateEncodingWitness ==
    /\ op.before["CCGR2"] = BitPos
    /\ mem["CSCDR2"] # op.before["CSCDR2"]
    /\ op.name = "get_clock_gate"
    /\ op.inst = "I2C1"
    /\ op.result = Some(OnlyRun)
    /\ get_clock_gate_(mem["CCGR2"], 3) = 1
    /\ get_clock_gate_(mem["CCGR2"], 4) = 0

\* a getter has reached unreachable!() on a field that held 0b10 from the
\* start
GateEncodingPanicWitness ==
    /\ pc = "panicked"
    /\ ~AllFieldsValid(op.before)
    /\ op.result = Some(Unreachable)

(***************************************************************************)
(* The order of the gate and root accesses, checked under SpecPeriph       *)
(***************************************************************************)
\* C30: in the configuration method of a root, the write to the root
\* register is the last access and the only root write; everything before
\* the root's read-modify-write is a clock gate access; the gate of every
\* valid instance of the class was written before it, and those gates are
\* Off when the root register changes.
GateBeforeRoot ==
    pc = "divider_done" =>
        \A n \in {Len(log)} :
            /\ n >= 2
            /\ log[n] = RootAccess("write", op.root)
            /\ log[n - 1] = RootAccess("read", op.root)
            /\ \A i \in 1 .. (n - 2) : log[i].reg \in CcgrRegs
            /\ \A inst \in op.valid :
                  /\ \E i \in 1 .. (n - 2) : log[i] = GateAccess("write", location(inst))
                  /\ GatesHold(mem, inst, Off)

\* the UART root configured where UART2 and UART8 are valid and all gates
\* were On: two gate read-modify-writes, then the root's, which changed it
GateBeforeRootWitness ==
    /\ pc = "divider_done"
    /\ op.root = "uart"
    /\ op.valid = {"UART2", "UART8"}
    /\ op.before["CCGR0"] = BitPos
    /\ Len(log) = 6
    /\ log[2] = GateAccess("write", location("UART2"))
    /\ log[4] = GateAccess("write", location("UART8"))
    /\ log[6] = RootAccess("write", "uart")
    /\ mem["CSCDR1"] # op.before["CSCDR1"]
    /\ GatesHold(mem, "UART2", Off) /\ GatesHold(mem, "UART1", On)

====
